---------------------------- MODULE Spec2Model ----------------------------
(***************************************************************************)
(* Verification model of the wireguard-tune tunnel service:                *)
(*   - tunnelService.Execute      (src/tunnel/service.go)                  *)
(*   - runScriptCommand           (src/tunnel/scriptrunner.go)             *)
(*   - resolveHostname            (src/manager/uiprocess.go, package conf) *)
(*   - monitorMTU / updateMTU     (src/tunnel/mtumonitor.go)               *)
(*   - FromWgQuick                (src/manager/uiprocess.go, package conf) *)
(* Each component has its own specification (SpecExec, SpecScript, ...);   *)
(* the variables of the other components stay at their initial values.     *)
(***************************************************************************)
EXTENDS Integers, Sequences, FiniteSets, TLC

VARIABLES
    \* ---- tunnelService.Execute ----
    ePc,            \* position of the Execute goroutine
    boot,           \* services.StartedAtBoot()
    serviceState,   \* local serviceState
    changes,        \* every svc.Status sent on the changes channel, in order
    done,           \* startup steps that returned successfully, in order
    failed,         \* the startup step that failed, or "none"
    watcher,        \* watcher != nil
    adapter,        \* adapter != nil
    config,         \* config != nil
    err,            \* local err ("nil" or an error)
    serviceError,   \* local serviceError
    createTries,    \* loop index i of the adapter creation loop
    createSleeps,   \* seconds slept before each retry of adapter creation
    scmMarked,      \* the SCM-locked branch reported Running early
    started,        \* local started of the control loop
    ctrlCount,      \* control requests received so far
    cancelled,      \* cancel() of ctx was called
    cleanupWg,      \* counter of cleanupWg
    task,           \* state of each cleanup goroutine
    hangs,          \* whether a launched cleanup task never completes
    taskErr,        \* whether a finished cleanup task ended with an error
    shutdownDone,   \* channel shutdownDone is closed
    shutdownExpired,\* the 30 s deadline of shutdownCtx has passed
    cleanupReported,\* "Cleanup completed successfully" was logged
    stackDumped,    \* the stack dump of the deadlock path was logged
    \* ---- runScriptCommand ----
    sPc,            \* position of the runScriptCommand call
    sCommand,       \* parameter command
    sGate,          \* conf.AdminBool("DangerousScriptExecution")
    sSpawned,       \* subprocesses started by os.StartProcess
    sResult,        \* the error returned ("none" while running)
    sProc,          \* the subprocess: "none", "running", "exited", "killed"
    sExitCode,      \* exit code of the subprocess once it exited
    sDone,          \* channel done: << >> or the one error process.Wait gave
    sTimedOut,      \* the 30 s deadline of ctx has passed
    sWritten,       \* output lines the subprocess has written
    sPipe,          \* lines in the pipe, not yet read by the scanner
    sScan,          \* scanner goroutine: "off", "scan", "send", "exit"
    sHeld,          \* the line the scanner goroutine is about to send
    sChan,          \* outputChan
    sLog,           \* logger goroutine: "off", "run", "exit"
    sLogged,        \* lines logged with the "cmd> " prefix
    sWait,          \* process.Wait goroutine: "off", "run", "exit"
    \* ---- resolveHostname ----
    dPc,            \* position of the resolveHostname call
    dBoot,          \* services.StartedAtBoot()
    dNow,           \* the clock, in seconds
    dCache,         \* dnsCache.entries: host -> entry or NoEntry
    dHost,          \* parameter name
    dI,             \* loop index i
    dMaxTries,      \* local maxTries
    dLookups,       \* lookups started by this call
    dSleeps,        \* <<i, seconds>> of every time.Sleep of this call
    dAllTryAgain,   \* every lookup of this call returned WSATRY_AGAIN
    dRet,           \* (resolvedIPString, err) returned
    dCalls,         \* calls made so far
    dIdle,          \* idle waits so far
    dTimeouts,      \* lookups that timed out so far
    dCallTime,      \* the clock when this call began
    dCallEntry,     \* the cache entry of name when this call began
    dLastErr,       \* outcome of the last lookup of this call
    dCh,            \* buffer of resultCh of the current iteration
    dOrphan,        \* abandoned lookup goroutines that have not answered yet
    dLate,          \* results lying in the channels of abandoned lookups
    dRecv,          \* the result the select of this call received last
    \* ---- monitorMTU ----
    mFamily,        \* parameter family: "AF_INET" or "AF_INET6"
    mState,         \* mtuState: lastLUID, lastIndex, lastMTU, lastUpdate, minMTU
    mLock,          \* holder of state.mutex, or "free"
    mPc,            \* per source of updateMTU calls: "idle", "wait", "body"
    mCall,          \* per source: the call in progress
    mRegistered,    \* the two change callbacks are registered
    mStartup,       \* the initial updateMTU call: "todo", "running", "ok", "failed"
    mNow,           \* the clock, in milliseconds
    mEnv,           \* the host's routing table and interfaces
    mTunMTU,        \* NLMTU of the tunnel interface
    mLog,           \* the finished updateMTU calls, in order of completion
    mLast,          \* what the last finished updateMTU call saw and did
    \* ---- FromWgQuick ----
    pPc,            \* "Loop", "Returned" (or "Off")
    pLines,         \* the lines of s read so far
    pState,         \* state: the parserState
    pPeers,         \* conf.Peers
    pPeer,          \* peer: NilPeer or the Peer being filled
    pPrivateKey,    \* conf.Interface.PrivateKey
    pSawPrivateKey, \* sawPrivateKey
    pResult,        \* "none", "conf" (a *Config is returned) or the parse error
    \* ---- parseEndpoint ----
    enPc,           \* "Call", "Returned" (or "Off")
    enS,            \* parameter s, a sequence of characters
    enRes,          \* the result: err ("nil" or the error), host, port
    \* ---- splitList, called for a list-valued key of FromWgQuick ----
    lsPc,           \* "Split", "Use", "Done" (or "Off")
    lsKey,          \* the key of the line: "address", "dns" or "allowedips"
    lsVal,          \* val, a sequence of characters
    lsOut,          \* what splitList returned: err and out
    lsAdded,        \* the elements appended to the Config by this line
    lsResult,       \* "none", "continue" (next line) or the error FromWgQuick returns
    \* ---- Config.ResolveEndpoints ----
    rPc,            \* "Loop", "Wait", "Returned" (or "Off")
    rI,             \* loop index i (from 1)
    rOrig,          \* the Endpoint.Host of each peer at the call
    rHosts,         \* config.Peers[i].Endpoint.Host
    rTask,          \* per peer: "none", "resolving", "resolved", "locked", "done"
    rOutcome,       \* per peer: what resolveHostname returned (ip, err)
    rWg,            \* counter of wg
    rMu,            \* holder of mu (a peer index) or 0
    rFirstErr,      \* firstErr
    rRecorded,      \* the failing peers in the order in which they took mu
    rWrites,        \* the peers whose host was written
    rRet,           \* the returned error, "none" before the return
    \* ---- pitfallDnsCacheDisabled ----
    pfPc,           \* position of the goroutine of evaluateStaticPitfalls
    pfOnce,         \* dnsCacheCheckOnce has run its function
    pfTime,         \* dnsCacheTime, ZeroTime before it is set
    pfDisabled,     \* dnsCacheDisabled
    pfStartDisabled,\* the dnscache service is configured as disabled
    pfDepth,        \* nested calls of pitfallDnsCacheDisabled (saturating)
    pfFailedAt,     \* the system call that failed in the last check, or "none"
    pfWarned,       \* the warning was logged
    pfNow,          \* the clock, in seconds
    pfTicks,        \* clock ticks so far
    \* ---- pitfallWeakHostSend ----
    wPc,            \* position in pitfallWeakHostSend
    wFamily,        \* parameter family
    wPeers,         \* the Endpoint.Host of each peer of conf
    wRoutes,        \* the routing table of the family
    wIfs,           \* the interfaces of the host, by LUID
    wEnds,          \* endpoints
    wI,             \* index i of the outer loop
    wJ,             \* index j of the inner loop
    wFailed,        \* the system call that failed, or "none"
    wLog,           \* the interfaces warned about, in the order of the lines
    \* ---- uiProcess ----
    uPc,            \* per goroutine: position in Wait, Kill or release
    uHandle,        \* p.handle
    uLocal,         \* per goroutine: the local variable handle
    uOpen,          \* the handle of the process is open
    uExited,        \* the UI process has exited
    uFinalizer,     \* a finalizer is set for p
    uCloseCalls,    \* calls of CloseHandle made
    uStale,         \* calls of the operating system given a closed handle
    uRet,           \* per goroutine: what its call returned
    \* ---- Tray ----
    tOn,            \* the tray exists
    tTunnels,       \* the keys of tray.tunnels
    tTop,           \* the actions of the context menu
    tSub,           \* the actions of the submenu of the tunnels
    tBreakout,      \* tunnelsAreInBreakoutMenu
    tFailed         \* walk.NewMenu or InsertMenu has failed

execVars == <<ePc, boot, serviceState, changes, done, failed, watcher, adapter,
              config, err, serviceError, createTries, createSleeps, scmMarked,
              started, ctrlCount, cancelled, cleanupWg, task, hangs,
              shutdownDone, shutdownExpired, cleanupReported, stackDumped,
              taskErr>>

scriptVars == <<sPc, sCommand, sGate, sSpawned, sResult, sProc, sExitCode,
                sDone, sTimedOut, sWritten, sPipe, sScan, sHeld, sChan, sLog,
                sLogged, sWait>>

dnsVars == <<dPc, dBoot, dNow, dCache, dHost, dI, dMaxTries, dLookups,
             dSleeps, dAllTryAgain, dRet, dCalls, dIdle, dTimeouts, dCallTime,
             dCallEntry, dLastErr, dCh, dOrphan, dLate, dRecv>>

mtuVars == <<mFamily, mState, mLock, mPc, mCall, mRegistered, mStartup, mNow,
             mEnv, mTunMTU, mLog, mLast>>

parseVars == <<pPc, pLines, pState, pPeers, pPeer, pPrivateKey, pSawPrivateKey,
               pResult>>

endpointVars == <<enPc, enS, enRes>>

listVars == <<lsPc, lsKey, lsVal, lsOut, lsAdded, lsResult>>

resolveVars == <<rPc, rI, rOrig, rHosts, rTask, rOutcome, rWg, rMu, rFirstErr,
                 rRecorded, rWrites, rRet>>

pitfallVars == <<pfPc, pfOnce, pfTime, pfDisabled, pfStartDisabled, pfDepth,
                 pfFailedAt, pfWarned, pfNow, pfTicks>>

weakVars == <<wPc, wFamily, wPeers, wRoutes, wIfs, wEnds, wI, wJ, wFailed,
              wLog>>

uiVars == <<uPc, uHandle, uLocal, uOpen, uExited, uFinalizer, uCloseCalls,
            uStale, uRet>>

trayVars == <<tOn, tTunnels, tTop, tSub, tBreakout, tFailed>>

vars == <<execVars, scriptVars, dnsVars, mtuVars, parseVars, endpointVars,
          listVars, resolveVars, pitfallVars, weakVars, uiVars, trayVars>>

\* The variables of the other components, which a component leaves alone.
nonExecVars == <<scriptVars, dnsVars, mtuVars, parseVars, endpointVars,
    listVars, resolveVars, pitfallVars, weakVars, uiVars, trayVars>>
nonScriptVars == <<execVars, dnsVars, mtuVars, parseVars, endpointVars,
    listVars, resolveVars, pitfallVars, weakVars, uiVars, trayVars>>
nonDnsVars == <<execVars, scriptVars, mtuVars, parseVars, endpointVars,
    listVars, resolveVars, pitfallVars, weakVars, uiVars, trayVars>>
nonMtuVars == <<execVars, scriptVars, dnsVars, parseVars, endpointVars,
    listVars, resolveVars, pitfallVars, weakVars, uiVars, trayVars>>
nonParseVars == <<execVars, scriptVars, dnsVars, mtuVars, endpointVars,
    listVars, resolveVars, pitfallVars, weakVars, uiVars, trayVars>>
nonEndpointVars == <<execVars, scriptVars, dnsVars, mtuVars, parseVars,
    listVars, resolveVars, pitfallVars, weakVars, uiVars, trayVars>>
nonListVars == <<execVars, scriptVars, dnsVars, mtuVars, parseVars,
    endpointVars, resolveVars, pitfallVars, weakVars, uiVars, trayVars>>
nonResolveVars == <<execVars, scriptVars, dnsVars, mtuVars, parseVars,
    endpointVars, listVars, pitfallVars, weakVars, uiVars, trayVars>>
nonPitfallVars == <<execVars, scriptVars, dnsVars, mtuVars, parseVars,
    endpointVars, listVars, resolveVars, weakVars, uiVars, trayVars>>
nonWeakVars == <<execVars, scriptVars, dnsVars, mtuVars, parseVars,
    endpointVars, listVars, resolveVars, pitfallVars, uiVars, trayVars>>
nonUiVars == <<execVars, scriptVars, dnsVars, mtuVars, parseVars,
    endpointVars, listVars, resolveVars, pitfallVars, weakVars, trayVars>>
nonTrayVars == <<execVars, scriptVars, dnsVars, mtuVars, parseVars,
    endpointVars, listVars, resolveVars, pitfallVars, weakVars, uiVars>>

Min(a, b) == IF a < b THEN a ELSE b
Max(a, b) == IF a > b THEN a ELSE b

Pow2_rec[n \in 0..40] == IF n = 0 THEN 1 ELSE 2 * Pow2_rec[n - 1]

(***************************************************************************)
(*                       tunnelService.Execute                             *)
(***************************************************************************)

\* Bound on the control requests delivered on r while in the control loop.
MaxCtrl == 2

\* for i := 0; i < 15; i++ of the adapter creation loop.
MaxCreateTries == 15
\* if sleepSeconds > 30 { sleepSeconds = 30 }
MaxCreateSleep == 30

Tasks == {"PreDown", "WatcherDestroy", "AdapterClose", "PostDown"}

\* The startup steps of Execute in the order in which the code calls them.
StartupOrder ==
    << "OpenLog", "LoadConfig", "Dedup", "StaticPitfalls", "WatchInterface",
       "ResolveEndpoints", "CreateAdapter", "SetLogging", "PreUp", "Firewall",
       "DropPrivileges", "SetConfiguration", "BringUp", "ConfigureWatcher",
       "PostUp" >>

\* Position reached when the step at position pc returned successfully.
\* Between Dedup and StaticPitfalls the code checks the SCM lock; after
\* PostUp it sends the status that accepts Stop and Shutdown.
StepAfter(pc) ==
    CASE pc = "OpenLog"          -> "LoadConfig"
      [] pc = "LoadConfig"       -> "Dedup"
      [] pc = "Dedup"            -> "ScmCheck"
      [] pc = "ScmCheck"         -> "StaticPitfalls"
      [] pc = "StaticPitfalls"   -> "WatchInterface"
      [] pc = "WatchInterface"   -> "ResolveEndpoints"
      [] pc = "ResolveEndpoints" -> "CreateAdapter"
      [] pc = "CreateAdapter"    -> "SetLogging"
      [] pc = "SetLogging"       -> "PreUp"
      [] pc = "PreUp"            -> "Firewall"
      [] pc = "Firewall"         -> "DropPrivileges"
      [] pc = "DropPrivileges"   -> "SetConfiguration"
      [] pc = "SetConfiguration" -> "BringUp"
      [] pc = "BringUp"          -> "ConfigureWatcher"
      [] pc = "ConfigureWatcher" -> "PostUp"
      [] pc = "PostUp"           -> "SignalAccepts"
      [] pc = "SignalAccepts"    -> "Loop"

\* Mutant: a failed step does not return, the next step runs.
AfterFailureContinues(pc) == StepAfter(pc)

\* Position reached when a startup step failed: the `return` runs the
\* deferred teardown.
AfterFailure(pc) == "Defer"

\* changes <- svc.Status{State: st, Accepts: acc}; nDone remembers how many
\* startup steps had succeeded when the status was sent.
Send(st, acc) ==
    changes' = Append(changes, [state |-> st, accepts |-> acc, nDone |-> Len(done)])

\* A startup step returned nil.
StepOk(step) ==
    /\ done' = Append(done, step)
    /\ ePc' = StepAfter(step)

\* A failing step that reports one code whatever the step is.
StepFailsOneCode(step, e, svcErr) ==
    /\ failed' = step
    /\ err' = e
    /\ serviceError' = "ErrorCreateNetworkAdapter"
    /\ ePc' = AfterFailure(step)

\* A startup step returned an error e: serviceError is set and Execute returns.
StepFails(step, e, svcErr) ==
    /\ failed' = step
    /\ err' = e
    /\ serviceError' = svcErr
    /\ ePc' = AfterFailure(step)

InitExec ==
    /\ ePc = "OpenLog"
    /\ boot \in BOOLEAN
    /\ serviceState = "StartPending"
    /\ changes = << [state |-> "StartPending", accepts |-> FALSE, nDone |-> 0] >>
    /\ done = << >>
    /\ failed = "none"
    /\ watcher = FALSE
    /\ adapter = FALSE
    /\ config = FALSE
    /\ err = "nil"
    /\ serviceError = "ErrorSuccess"
    /\ createTries = 0
    /\ createSleeps = << >>
    /\ scmMarked = FALSE
    /\ started = FALSE
    /\ ctrlCount = 0
    /\ cancelled = FALSE
    /\ cleanupWg = 0
    /\ task = [t \in Tasks |-> "none"]
    /\ hangs = [t \in Tasks |-> FALSE]
    /\ taskErr = [t \in Tasks |-> FALSE]
    /\ shutdownDone = FALSE
    /\ shutdownExpired = FALSE
    /\ cleanupReported = FALSE
    /\ stackDumped = FALSE

\* Execute is not running (the state of the other specifications).
ExecOff ==
    /\ ePc = "Off"
    /\ boot = FALSE
    /\ serviceState = "StartPending"
    /\ changes = << >>
    /\ done = << >>
    /\ failed = "none"
    /\ watcher = FALSE
    /\ adapter = FALSE
    /\ config = FALSE
    /\ err = "nil"
    /\ serviceError = "ErrorSuccess"
    /\ createTries = 0
    /\ createSleeps = << >>
    /\ scmMarked = FALSE
    /\ started = FALSE
    /\ ctrlCount = 0
    /\ cancelled = FALSE
    /\ cleanupWg = 0
    /\ task = [t \in Tasks |-> "none"]
    /\ hangs = [t \in Tasks |-> FALSE]
    /\ taskErr = [t \in Tasks |-> FALSE]
    /\ shutdownDone = FALSE
    /\ shutdownExpired = FALSE
    /\ cleanupReported = FALSE
    /\ stackDumped = FALSE

\* conf.LogFile(true) and ringlogger.InitGlobalLogger: either failing gives
\* ErrorRingloggerOpen.
OpenLog ==
    /\ ePc = "OpenLog"
    /\ \/ /\ StepOk("OpenLog")
          /\ UNCHANGED <<failed, err, serviceError>>
       \/ /\ StepFails("OpenLog", "error", "ErrorRingloggerOpen")
          /\ UNCHANGED done
    /\ UNCHANGED <<boot, serviceState, changes, watcher, adapter, config,
                   createTries, createSleeps, scmMarked, started, ctrlCount,
                   cancelled, cleanupWg, task, hangs, shutdownDone,
                   shutdownExpired, cleanupReported, stackDumped>>
    /\ UNCHANGED taskErr
    /\ UNCHANGED nonExecVars

\* config, err = conf.LoadFromPath(service.Path)
LoadConfig ==
    /\ ePc = "LoadConfig"
    /\ \/ /\ StepOk("LoadConfig")
          /\ config' = TRUE
          /\ UNCHANGED <<failed, err, serviceError>>
       \/ /\ StepFails("LoadConfig", "error", "ErrorLoadConfiguration")
          /\ UNCHANGED <<done, config>>
    /\ UNCHANGED <<boot, serviceState, changes, watcher, adapter,
                   createTries, createSleeps, scmMarked, started, ctrlCount,
                   cancelled, cleanupWg, task, hangs, shutdownDone,
                   shutdownExpired, cleanupReported, stackDumped>>
    /\ UNCHANGED taskErr
    /\ UNCHANGED nonExecVars

\* config.DeduplicateNetworkEntries(): cannot fail.
Dedup ==
    /\ ePc = "Dedup"
    /\ StepOk("Dedup")
    /\ UNCHANGED <<boot, serviceState, changes, failed, watcher, adapter, config,
                   err, serviceError, createTries, createSleeps, scmMarked,
                   started, ctrlCount, cancelled, cleanupWg, task, hangs,
                   shutdownDone, shutdownExpired, cleanupReported, stackDumped>>
    /\ UNCHANGED taskErr
    /\ UNCHANGED nonExecVars

\* Mutant: the SCM lock is honoured also when not started at boot.
ScmMarksStartedAnyMode(locked) == locked

\* if services.StartedAtBoot() { ... if ... lockStatus.IsLocked {
\* locked: mgr.Connect and LockStatus succeeded and the SCM is locked.
ScmMarksStarted(locked) == boot /\ locked

\* if services.StartedAtBoot() { ... if lockStatus.IsLocked { serviceState =
\* svc.Running; changes <- svc.Status{State: serviceState} } }
ScmCheck ==
    /\ ePc = "ScmCheck"
    /\ \E locked \in BOOLEAN :
         IF ScmMarksStarted(locked)
         THEN /\ serviceState' = "Running"
              /\ Send("Running", FALSE)
              /\ scmMarked' = TRUE
         ELSE UNCHANGED <<serviceState, changes, scmMarked>>
    /\ ePc' = StepAfter("ScmCheck")
    /\ UNCHANGED <<boot, done, failed, watcher, adapter, config, err,
                   serviceError, createTries, createSleeps, started, ctrlCount,
                   cancelled, cleanupWg, task, hangs, shutdownDone,
                   shutdownExpired, cleanupReported, stackDumped>>
    /\ UNCHANGED taskErr
    /\ UNCHANGED nonExecVars

\* evaluateStaticPitfalls(): starts a goroutine and returns.
StaticPitfalls ==
    /\ ePc = "StaticPitfalls"
    /\ StepOk("StaticPitfalls")
    /\ UNCHANGED <<boot, serviceState, changes, failed, watcher, adapter, config,
                   err, serviceError, createTries, createSleeps, scmMarked,
                   started, ctrlCount, cancelled, cleanupWg, task, hangs,
                   shutdownDone, shutdownExpired, cleanupReported, stackDumped>>
    /\ UNCHANGED taskErr
    /\ UNCHANGED nonExecVars

\* watcher, err = watchInterface()
WatchInterface ==
    /\ ePc = "WatchInterface"
    /\ \/ /\ StepOk("WatchInterface")
          /\ watcher' = TRUE
          /\ UNCHANGED <<failed, err, serviceError>>
       \/ /\ StepFails("WatchInterface", "error", "ErrorSetNetConfig")
          /\ UNCHANGED <<done, watcher>>
    /\ UNCHANGED <<boot, serviceState, changes, adapter, config,
                   createTries, createSleeps, scmMarked, started, ctrlCount,
                   cancelled, cleanupWg, task, hangs, shutdownDone,
                   shutdownExpired, cleanupReported, stackDumped>>
    /\ UNCHANGED taskErr
    /\ UNCHANGED nonExecVars

\* err = config.ResolveEndpoints()
ResolveEndpointsStep ==
    /\ ePc = "ResolveEndpoints"
    /\ \/ /\ StepOk("ResolveEndpoints")
          /\ UNCHANGED <<failed, err, serviceError>>
       \/ /\ StepFails("ResolveEndpoints", "error", "ErrorDNSLookup")
          /\ UNCHANGED done
    /\ UNCHANGED <<boot, serviceState, changes, watcher, adapter, config,
                   createTries, createSleeps, scmMarked, started, ctrlCount,
                   cancelled, cleanupWg, task, hangs, shutdownDone,
                   shutdownExpired, cleanupReported, stackDumped>>
    /\ UNCHANGED taskErr
    /\ UNCHANGED nonExecVars

\* Mutant: the sleep is not capped.
CreateBackoffUncapped(i) == Pow2_rec[i]

\* sleepSeconds := math.Pow(2, float64(i)); capped at 30.
CreateBackoff(i) == Min(Pow2_rec[i], MaxCreateSleep)

\* One iteration of the adapter creation loop: the sleep of a retry, then
\* driver.CreateAdapter; on failure the loop goes on only when started at
\* boot and i + 1 < 15.
CreateAdapter ==
    /\ ePc = "CreateAdapter"
    /\ createTries < MaxCreateTries
    /\ createSleeps' = IF createTries > 0
                       THEN Append(createSleeps, CreateBackoff(createTries))
                       ELSE createSleeps
    /\ \/ /\ StepOk("CreateAdapter")
          /\ adapter' = TRUE
          /\ err' = "nil"
          /\ UNCHANGED <<failed, serviceError, createTries>>
       \/ /\ boot /\ createTries + 1 < MaxCreateTries
          /\ createTries' = createTries + 1
          /\ err' = "error"
          /\ UNCHANGED <<done, failed, serviceError, adapter, ePc>>
       \/ /\ ~boot \/ createTries + 1 = MaxCreateTries
          /\ StepFails("CreateAdapter", "error", "ErrorCreateNetworkAdapter")
          /\ UNCHANGED <<done, adapter, createTries>>
    /\ UNCHANGED <<boot, serviceState, changes, watcher, config, scmMarked,
                   started, ctrlCount, cancelled, cleanupWg, task, hangs,
                   shutdownDone, shutdownExpired, cleanupReported, stackDumped>>
    /\ UNCHANGED taskErr
    /\ UNCHANGED nonExecVars

\* driver.RunningVersion() (a failure is only logged), then
\* err = adapter.SetLogging(driver.AdapterLogOn)
SetLogging ==
    /\ ePc = "SetLogging"
    /\ \/ /\ StepOk("SetLogging")
          /\ UNCHANGED <<failed, err, serviceError>>
       \/ /\ StepFails("SetLogging", "error", "ErrorCreateNetworkAdapter")
          /\ UNCHANGED done
    /\ UNCHANGED <<boot, serviceState, changes, watcher, adapter, config,
                   createTries, createSleeps, scmMarked, started, ctrlCount,
                   cancelled, cleanupWg, task, hangs, shutdownDone,
                   shutdownExpired, cleanupReported, stackDumped>>
    /\ UNCHANGED taskErr
    /\ UNCHANGED nonExecVars

\* err = runScriptCommand(config.Interface.PreUp, config.Name)
PreUp ==
    /\ ePc = "PreUp"
    /\ \/ /\ StepOk("PreUp")
          /\ UNCHANGED <<failed, err, serviceError>>
       \/ /\ StepFails("PreUp", "error", "ErrorRunScript")
          /\ UNCHANGED done
    /\ UNCHANGED <<boot, serviceState, changes, watcher, adapter, config,
                   createTries, createSleeps, scmMarked, started, ctrlCount,
                   cancelled, cleanupWg, task, hangs, shutdownDone,
                   shutdownExpired, cleanupReported, stackDumped>>
    /\ UNCHANGED taskErr
    /\ UNCHANGED nonExecVars

\* err = enableFirewall(config, luid)
Firewall ==
    /\ ePc = "Firewall"
    /\ \/ /\ StepOk("Firewall")
          /\ UNCHANGED <<failed, err, serviceError>>
       \/ /\ StepFails("Firewall", "error", "ErrorFirewall")
          /\ UNCHANGED done
    /\ UNCHANGED <<boot, serviceState, changes, watcher, adapter, config,
                   createTries, createSleeps, scmMarked, started, ctrlCount,
                   cancelled, cleanupWg, task, hangs, shutdownDone,
                   shutdownExpired, cleanupReported, stackDumped>>
    /\ UNCHANGED taskErr
    /\ UNCHANGED nonExecVars

\* err = elevate.DropAllPrivileges(true)
DropPrivileges ==
    /\ ePc = "DropPrivileges"
    /\ \/ /\ StepOk("DropPrivileges")
          /\ UNCHANGED <<failed, err, serviceError>>
       \/ /\ StepFails("DropPrivileges", "error", "ErrorDropPrivileges")
          /\ UNCHANGED done
    /\ UNCHANGED <<boot, serviceState, changes, watcher, adapter, config,
                   createTries, createSleeps, scmMarked, started, ctrlCount,
                   cancelled, cleanupWg, task, hangs, shutdownDone,
                   shutdownExpired, cleanupReported, stackDumped>>
    /\ UNCHANGED taskErr
    /\ UNCHANGED nonExecVars

\* err = adapter.SetConfiguration(config.ToDriverConfiguration())
SetConfiguration ==
    /\ ePc = "SetConfiguration"
    /\ \/ /\ StepOk("SetConfiguration")
          /\ UNCHANGED <<failed, err, serviceError>>
       \/ /\ StepFails("SetConfiguration", "error", "ErrorDeviceSetConfig")
          /\ UNCHANGED done
    /\ UNCHANGED <<boot, serviceState, changes, watcher, adapter, config,
                   createTries, createSleeps, scmMarked, started, ctrlCount,
                   cancelled, cleanupWg, task, hangs, shutdownDone,
                   shutdownExpired, cleanupReported, stackDumped>>
    /\ UNCHANGED taskErr
    /\ UNCHANGED nonExecVars

\* err = adapter.SetAdapterState(driver.AdapterStateUp)
BringUp ==
    /\ ePc = "BringUp"
    /\ \/ /\ StepOk("BringUp")
          /\ UNCHANGED <<failed, err, serviceError>>
       \/ /\ StepFails("BringUp", "error", "ErrorDeviceBringUp")
          /\ UNCHANGED done
    /\ UNCHANGED <<boot, serviceState, changes, watcher, adapter, config,
                   createTries, createSleeps, scmMarked, started, ctrlCount,
                   cancelled, cleanupWg, task, hangs, shutdownDone,
                   shutdownExpired, cleanupReported, stackDumped>>
    /\ UNCHANGED taskErr
    /\ UNCHANGED nonExecVars

\* watcher.Configure(adapter, config, luid): returns nothing.
ConfigureWatcher ==
    /\ ePc = "ConfigureWatcher"
    /\ StepOk("ConfigureWatcher")
    /\ UNCHANGED <<boot, serviceState, changes, failed, watcher, adapter, config,
                   err, serviceError, createTries, createSleeps, scmMarked,
                   started, ctrlCount, cancelled, cleanupWg, task, hangs,
                   shutdownDone, shutdownExpired, cleanupReported, stackDumped>>
    /\ UNCHANGED taskErr
    /\ UNCHANGED nonExecVars

\* err = runScriptCommand(config.Interface.PostUp, config.Name)
PostUp ==
    /\ ePc = "PostUp"
    /\ \/ /\ StepOk("PostUp")
          /\ UNCHANGED <<failed, err, serviceError>>
       \/ /\ StepFails("PostUp", "error", "ErrorRunScript")
          /\ UNCHANGED done
    /\ UNCHANGED <<boot, serviceState, changes, watcher, adapter, config,
                   createTries, createSleeps, scmMarked, started, ctrlCount,
                   cancelled, cleanupWg, task, hangs, shutdownDone,
                   shutdownExpired, cleanupReported, stackDumped>>
    /\ UNCHANGED taskErr
    /\ UNCHANGED nonExecVars

\* Mutant: the status that accepts Stop is sent with StartPending.
SignalAcceptsStartPending ==
    /\ ePc = "SignalAccepts"
    /\ Send("StartPending", TRUE)
    /\ ePc' = StepAfter("SignalAccepts")
    /\ UNCHANGED <<boot, serviceState, done, failed, watcher, adapter, config,
                   err, serviceError, createTries, createSleeps, scmMarked,
                   started, ctrlCount, cancelled, cleanupWg, task, hangs,
                   shutdownDone, shutdownExpired, cleanupReported, stackDumped>>
    /\ UNCHANGED taskErr
    /\ UNCHANGED nonExecVars

\* changes <- svc.Status{State: serviceState, Accepts: AcceptStop | AcceptShutdown}
SignalAccepts ==
    /\ ePc = "SignalAccepts"
    /\ Send(serviceState, TRUE)
    /\ ePc' = StepAfter("SignalAccepts")
    /\ UNCHANGED <<boot, serviceState, done, failed, watcher, adapter, config,
                   err, serviceError, createTries, createSleeps, scmMarked,
                   started, ctrlCount, cancelled, cleanupWg, task, hangs,
                   shutdownDone, shutdownExpired, cleanupReported, stackDumped>>
    /\ UNCHANGED taskErr
    /\ UNCHANGED nonExecVars

\* Mutant: a Stop request cancels ctx but Execute stays in the loop.
CtrlStopStays ==
    /\ ePc = "Loop"
    /\ ctrlCount < MaxCtrl
    /\ ctrlCount' = ctrlCount + 1
    /\ cancelled' = TRUE
    /\ UNCHANGED <<ePc, boot, serviceState, changes, done, failed, watcher,
                   adapter, config, err, serviceError, createTries,
                   createSleeps, scmMarked, started, cleanupWg, task, hangs,
                   shutdownDone, shutdownExpired, cleanupReported, stackDumped>>
    /\ UNCHANGED taskErr
    /\ UNCHANGED nonExecVars

\* case c := <-r with c.Cmd Stop or Shutdown: cancel(); return
CtrlStop ==
    /\ ePc = "Loop"
    /\ ctrlCount < MaxCtrl
    /\ ctrlCount' = ctrlCount + 1
    /\ cancelled' = TRUE
    /\ ePc' = "Defer"
    /\ UNCHANGED <<boot, serviceState, changes, done, failed, watcher, adapter,
                   config, err, serviceError, createTries, createSleeps,
                   scmMarked, started, cleanupWg, task, hangs, shutdownDone,
                   shutdownExpired, cleanupReported, stackDumped>>
    /\ UNCHANGED taskErr
    /\ UNCHANGED nonExecVars

\* case c := <-r with c.Cmd Interrogate: changes <- c.CurrentStatus, the
\* status the service last reported.
CtrlInterrogate ==
    /\ ePc = "Loop"
    /\ ctrlCount < MaxCtrl
    /\ ctrlCount' = ctrlCount + 1
    /\ Send(changes[Len(changes)].state, changes[Len(changes)].accepts)
    /\ UNCHANGED <<ePc, boot, serviceState, done, failed, watcher, adapter,
                   config, err, serviceError, createTries, createSleeps,
                   scmMarked, started, cancelled, cleanupWg, task, hangs,
                   shutdownDone, shutdownExpired, cleanupReported, stackDumped>>
    /\ UNCHANGED taskErr
    /\ UNCHANGED nonExecVars

\* case c := <-r with any other command: only logged.
CtrlOther ==
    /\ ePc = "Loop"
    /\ ctrlCount < MaxCtrl
    /\ ctrlCount' = ctrlCount + 1
    /\ UNCHANGED <<ePc, boot, serviceState, changes, done, failed, watcher,
                   adapter, config, err, serviceError, createTries,
                   createSleeps, scmMarked, started, cancelled, cleanupWg,
                   task, hangs, shutdownDone, shutdownExpired,
                   cleanupReported, stackDumped>>
    /\ UNCHANGED taskErr
    /\ UNCHANGED nonExecVars

\* case <-watcher.started: the first time, Running is reported.
WatcherStarted ==
    /\ ePc = "Loop"
    /\ ~started
    /\ serviceState' = "Running"
    /\ Send("Running", TRUE)
    /\ started' = TRUE
    /\ UNCHANGED <<ePc, boot, done, failed, watcher, adapter, config, err,
                   serviceError, createTries, createSleeps, scmMarked,
                   ctrlCount, cancelled, cleanupWg, task, hangs, shutdownDone,
                   shutdownExpired, cleanupReported, stackDumped>>
    /\ UNCHANGED taskErr
    /\ UNCHANGED nonExecVars

\* case e := <-watcher.errors: serviceError, err = e.serviceError, e.err; return
WatcherError ==
    /\ ePc = "Loop"
    /\ serviceError' = "ErrorSetNetConfig"
    /\ err' = "error"
    /\ ePc' = "Defer"
    /\ UNCHANGED <<boot, serviceState, changes, done, failed, watcher, adapter,
                   config, createTries, createSleeps, scmMarked, started,
                   ctrlCount, cancelled, cleanupWg, task, hangs, shutdownDone,
                   shutdownExpired, cleanupReported, stackDumped>>
    /\ UNCHANGED taskErr
    /\ UNCHANGED nonExecVars

\* logErr := services.CombineErrors(err, serviceError)
LogErrIsNil == err = "nil" /\ serviceError = "ErrorSuccess"

\* Head of the deferred function: StopPending is reported, the 30 s
\* shutdownCtx starts and the goroutine that waits on cleanupWg is started.
DeferBegin ==
    /\ ePc = "Defer"
    /\ serviceState' = "StopPending"
    /\ Send("StopPending", FALSE)
    /\ ePc' = "Select"
    /\ UNCHANGED <<boot, done, failed, watcher, adapter, config, err,
                   serviceError, createTries, createSleeps, scmMarked, started,
                   ctrlCount, cancelled, cleanupWg, task, hangs, shutdownDone,
                   shutdownExpired, cleanupReported, stackDumped>>
    /\ UNCHANGED taskErr
    /\ UNCHANGED nonExecVars

\* go func() { defer close(shutdownDone); cleanupWg.Wait() }()
\* Wait returns when the counter is zero.
WgWaiter ==
    /\ ePc = "Select"
    /\ ~shutdownDone
    /\ cleanupWg = 0
    /\ shutdownDone' = TRUE
    /\ UNCHANGED <<ePc, boot, serviceState, changes, done, failed, watcher,
                   adapter, config, err, serviceError, createTries,
                   createSleeps, scmMarked, started, ctrlCount, cancelled,
                   cleanupWg, task, hangs, shutdownExpired, cleanupReported,
                   stackDumped>>
    /\ UNCHANGED taskErr
    /\ UNCHANGED nonExecVars

\* The 30 s deadline of shutdownCtx passes while Execute is in the select:
\* shutdownCtx.Done() becomes ready.
ShutdownExpire ==
    /\ ePc = "Select"
    /\ ~shutdownExpired
    /\ shutdownExpired' = TRUE
    /\ UNCHANGED <<ePc, boot, serviceState, changes, done, failed, watcher,
                   adapter, config, err, serviceError, createTries,
                   createSleeps, scmMarked, started, ctrlCount, cancelled,
                   cleanupWg, task, hangs, shutdownDone, cleanupReported,
                   stackDumped>>
    /\ UNCHANGED taskErr
    /\ UNCHANGED nonExecVars

\* case <-shutdownDone: log.Println("Cleanup completed successfully")
SelectDone ==
    /\ ePc = "Select"
    /\ shutdownDone
    /\ cleanupReported' = TRUE
    /\ ePc' = "Launch"
    /\ UNCHANGED <<boot, serviceState, changes, done, failed, watcher, adapter,
                   config, err, serviceError, createTries, createSleeps,
                   scmMarked, started, ctrlCount, cancelled, cleanupWg, task,
                   hangs, shutdownDone, shutdownExpired, stackDumped>>
    /\ UNCHANGED taskErr
    /\ UNCHANGED nonExecVars

\* case <-shutdownCtx.Done(): stack dump, os.Exit(777)
SelectTimeout ==
    /\ ePc = "Select"
    /\ shutdownExpired
    /\ stackDumped' = TRUE
    /\ ePc' = "Exit777"
    /\ UNCHANGED <<boot, serviceState, changes, done, failed, watcher, adapter,
                   config, err, serviceError, createTries, createSleeps,
                   scmMarked, started, ctrlCount, cancelled, cleanupWg, task,
                   hangs, shutdownDone, shutdownExpired, cleanupReported>>
    /\ UNCHANGED taskErr
    /\ UNCHANGED nonExecVars

\* Mutant: every cleanup goroutine is started.
LaunchedAll(t) == TRUE

\* Mutant: the scripts are started whether or not an error was recorded.
LaunchedDespiteError(t) ==
    CASE t = "PreDown"        -> adapter /\ config
      [] t = "WatcherDestroy" -> watcher
      [] t = "AdapterClose"   -> adapter
      [] t = "PostDown"       -> adapter /\ config

\* Which cleanup goroutines the deferred function starts after the select.
Launched(t) ==
    CASE t = "PreDown"        -> LogErrIsNil /\ adapter /\ config
      [] t = "WatcherDestroy" -> watcher
      [] t = "AdapterClose"   -> adapter
      [] t = "PostDown"       -> LogErrIsNil /\ adapter /\ config

\* The four `cleanupWg.Add(1); go func() {...}()` blocks after the select.
LaunchCleanup ==
    /\ ePc = "Launch"
    /\ task' = [t \in Tasks |-> IF Launched(t) THEN "running" ELSE "none"]
    /\ \E h \in [Tasks -> BOOLEAN] :
         /\ \A t \in Tasks : h[t] => Launched(t)
         /\ hangs' = h
    /\ cleanupWg' = cleanupWg + Cardinality({t \in Tasks : Launched(t)})
    /\ ePc' = "Return"
    /\ UNCHANGED <<boot, serviceState, changes, done, failed, watcher, adapter,
                   config, err, serviceError, createTries, createSleeps,
                   scmMarked, started, ctrlCount, cancelled,
                   shutdownDone, shutdownExpired, cleanupReported, stackDumped>>
    /\ UNCHANGED taskErr
    /\ UNCHANGED nonExecVars

\* log.Println("Shutting down"); the deferred function ends, the deferred
\* cancel() runs and Execute returns to the service framework.
ExecReturn ==
    /\ ePc = "Return"
    /\ cancelled' = TRUE
    /\ ePc' = "Returned"
    /\ UNCHANGED <<boot, serviceState, changes, done, failed, watcher, adapter,
                   config, err, serviceError, createTries, createSleeps,
                   scmMarked, started, ctrlCount, cleanupWg, task, hangs,
                   shutdownDone, shutdownExpired, cleanupReported, stackDumped>>
    /\ UNCHANGED taskErr
    /\ UNCHANGED nonExecVars

\* Whether a cleanup action can end with an error: runScriptCommand and
\* adapter.Close() return one, watcher.Destroy() returns nothing.
TaskErrors(t) == IF t = "WatcherDestroy" THEN {FALSE} ELSE BOOLEAN

\* A cleanup goroutine whose error ends the cleanup actions still running.
TaskFinishAborts ==
    /\ \E t \in Tasks :
         /\ task[t] = "running"
         /\ ~hangs[t]
         /\ \E e \in TaskErrors(t) :
              /\ taskErr' = [taskErr EXCEPT ![t] = e]
              /\ task' = [u \in Tasks |->
                            IF u = t THEN "done"
                            ELSE IF e /\ task[u] = "running" THEN "none"
                            ELSE task[u]]
    /\ cleanupWg' = cleanupWg - 1
    /\ UNCHANGED <<ePc, boot, serviceState, changes, done, failed, watcher,
                   adapter, config, err, serviceError, createTries,
                   createSleeps, scmMarked, started, ctrlCount, cancelled,
                   hangs, shutdownDone, shutdownExpired, cleanupReported,
                   stackDumped>>
    /\ UNCHANGED nonExecVars

\* A cleanup goroutine finishes, with an error that is only logged or
\* without one: defer cleanupWg.Done()
TaskFinish ==
    /\ \E t \in Tasks :
         /\ task[t] = "running"
         /\ ~hangs[t]
         /\ task' = [task EXCEPT ![t] = "done"]
         /\ \E e \in TaskErrors(t) : taskErr' = [taskErr EXCEPT ![t] = e]
    /\ cleanupWg' = cleanupWg - 1
    /\ UNCHANGED <<ePc, boot, serviceState, changes, done, failed, watcher,
                   adapter, config, err, serviceError, createTries,
                   createSleeps, scmMarked, started, ctrlCount, cancelled,
                   hangs, shutdownDone, shutdownExpired, cleanupReported,
                   stackDumped>>
    /\ UNCHANGED nonExecVars

NextExec ==
    \/ OpenLog \/ LoadConfig \/ Dedup \/ ScmCheck \/ StaticPitfalls
    \/ WatchInterface \/ ResolveEndpointsStep \/ CreateAdapter \/ SetLogging
    \/ PreUp \/ Firewall \/ DropPrivileges \/ SetConfiguration \/ BringUp
    \/ ConfigureWatcher \/ PostUp \/ SignalAccepts
    \/ CtrlStop \/ CtrlInterrogate \/ CtrlOther \/ WatcherStarted \/ WatcherError
    \/ DeferBegin \/ WgWaiter \/ ShutdownExpire \/ SelectDone \/ SelectTimeout
    \/ LaunchCleanup \/ ExecReturn \/ TaskFinish

(***************************************************************************)
(*                    Properties of tunnelService.Execute                  *)
(***************************************************************************)

IsPrefix(s, t) == Len(s) <= Len(t) /\ \A i \in 1..Len(s) : s[i] = t[i]

StartupSteps == {StartupOrder[i] : i \in 1..Len(StartupOrder)}
StepIndex(step) == CHOOSE i \in 1..Len(StartupOrder) : StartupOrder[i] = step
TeardownPcs == {"Defer", "Select", "Launch", "Return", "Returned", "Exit777"}

\* The startup steps that were started, in order: the successful ones and
\* then the failed one.
Attempted == done \o (IF failed = "none" THEN << >> ELSE << failed >>)

\* C1: teardown never finishes normally (Execute returning) while a cleanup
\* task that never completes is outstanding; such a run ends on the deadlock
\* path (stack dump, exit code 777).
C1_NoNormalFinishWithHungTask ==
    ePc = "Returned" => ~(\E t \in Tasks : task[t] = "running" /\ hangs[t])

\* C2: on the normal teardown path cleanup is not reported as completed and
\* Execute has not returned while a cleanup task of teardown is running.
C2_TeardownJoinsCleanupTasks ==
    (cleanupReported \/ ePc \in {"Return", "Returned"})
        => \A t \in Tasks : task[t] # "running"

\* C3: the startup steps run strictly in the order of StartupOrder, a step
\* starts only when all the steps before it returned successfully, and once
\* a step failed no later step runs and Execute is in teardown.
C3_StartupOrder ==
    /\ IsPrefix(Attempted, StartupOrder)
    /\ ePc \in StartupSteps =>
          failed = "none" /\ Len(done) = StepIndex(ePc) - 1
    /\ failed # "none" => ePc \in TeardownPcs

\* C3 witness: the firewall step failed after the nine steps before it
\* succeeded, and teardown ran to the end.
C3_Witness ==
    failed = "Firewall" /\ Len(done) = 9 /\ ePc = "Returned"

\* C4 as claimed: every Running status is sent after the whole startup
\* sequence (bring-up and PostUp included) succeeded.
C4_RunningOnlyAfterStartup ==
    \A i \in 1..Len(changes) :
        changes[i].state = "Running" => changes[i].nDone = Len(StartupOrder)

\* C4 amended: a Running status is sent before the startup sequence
\* succeeded only in boot mode with the SCM locked, and then right after the
\* Config was loaded and de-duplicated (before the adapter exists); every
\* other Running status follows a successful bring-up and PostUp.
C4_RunningAfterStartupUnlessScmLocked ==
    \A i \in 1..Len(changes) :
        changes[i].state = "Running" =>
            \/ changes[i].nDone = Len(StartupOrder)
            \/ boot /\ scmMarked /\ changes[i].nDone = StepIndex("Dedup")

\* C4 witness: Running reported by the control loop of a run that never
\* took the SCM-locked branch.
C4_Witness ==
    /\ ~scmMarked
    /\ \E i \in 1..Len(changes) :
         changes[i].state = "Running" /\ changes[i].nDone = Len(StartupOrder)


\* min(2^i, 30) for i = 1..14.
ExpectedCreateSleeps == <<2, 4, 8, 16, 30, 30, 30, 30, 30, 30, 30, 30, 30, 30>>

\* The adapter creation loop has ended, with or without an adapter.
CreateEnded ==
    \/ failed = "CreateAdapter"
    \/ \E k \in 1..Len(done) : done[k] = "CreateAdapter"

\* C15: adapter creation is attempted exactly once when not started at
\* boot and at most 15 times when started at boot, stopping at the first
\* success; before boot-mode attempt i >= 1 (zero-based) the sleep is
\* min(2^i, 30) seconds, and after 15 failed attempts (or the one failed
\* attempt outside boot mode) startup aborts with the adapter-creation
\* error.
C15_AdapterCreationRetries ==
    /\ createTries < 15
    /\ IsPrefix(createSleeps, ExpectedCreateSleeps)
    /\ ~boot => createTries = 0 /\ createSleeps = << >>
    /\ ePc = "CreateAdapter" => Len(createSleeps) = Max(createTries - 1, 0)
    /\ CreateEnded => Len(createSleeps) = createTries
    /\ failed = "CreateAdapter" =>
         /\ serviceError = "ErrorCreateNetworkAdapter"
         /\ ~adapter
         /\ createTries = (IF boot THEN 14 ELSE 0)
         /\ ePc \in TeardownPcs

\* At boot the fifteenth attempt failed, after 14 sleeps.
C15_Witness ==
    /\ boot
    /\ failed = "CreateAdapter"
    /\ createTries = 14
    /\ createSleeps = ExpectedCreateSleeps

\* The failure class of a startup step, after the error taxonomy: enabling
\* adapter logging, pushing the configuration and bringing the adapter up
\* form one class, PreUp and PostUp another.
FailureClass(step) ==
    CASE step = "OpenLog" -> "log-sink open"
      [] step = "LoadConfig" -> "configuration load"
      [] step = "WatchInterface" -> "interface watch"
      [] step = "ResolveEndpoints" -> "DNS resolution"
      [] step = "CreateAdapter" -> "adapter creation"
      [] step \in {"SetLogging", "SetConfiguration", "BringUp"} ->
             "adapter logging/configuration/bring-up"
      [] step \in {"PreUp", "PostUp"} -> "script execution"
      [] step = "Firewall" -> "firewall/route isolation"
      [] step = "DropPrivileges" -> "privilege drop"
      [] OTHER -> "none"

\* The failure class a service error code names.
ClassOfCode(code) ==
    CASE code = "ErrorRingloggerOpen" -> "log-sink open"
      [] code = "ErrorLoadConfiguration" -> "configuration load"
      [] code = "ErrorSetNetConfig" -> "interface watch"
      [] code = "ErrorDNSLookup" -> "DNS resolution"
      [] code = "ErrorCreateNetworkAdapter" -> "adapter creation"
      [] code \in {"ErrorDeviceSetConfig", "ErrorDeviceBringUp"} ->
             "adapter logging/configuration/bring-up"
      [] code = "ErrorRunScript" -> "script execution"
      [] code = "ErrorFirewall" -> "firewall/route isolation"
      [] code = "ErrorDropPrivileges" -> "privilege drop"
      [] OTHER -> "none"

\* The startup steps whose failure is reported with a given code.
StepsOfCode(code) ==
    CASE code = "ErrorRingloggerOpen" -> {"OpenLog"}
      [] code = "ErrorLoadConfiguration" -> {"LoadConfig"}
      [] code = "ErrorSetNetConfig" -> {"WatchInterface"}
      [] code = "ErrorDNSLookup" -> {"ResolveEndpoints"}
      [] code = "ErrorCreateNetworkAdapter" -> {"CreateAdapter", "SetLogging"}
      [] code = "ErrorRunScript" -> {"PreUp", "PostUp"}
      [] code = "ErrorFirewall" -> {"Firewall"}
      [] code = "ErrorDropPrivileges" -> {"DropPrivileges"}
      [] code = "ErrorDeviceSetConfig" -> {"SetConfiguration"}
      [] code = "ErrorDeviceBringUp" -> {"BringUp"}
      [] OTHER -> {}

\* C16 as claimed: when a startup step failed, the reported service error
\* code is the code of the failure class of that step, so that the code
\* identifies the class that failed.
C16_CodeIdentifiesClass ==
    failed # "none" => ClassOfCode(serviceError) = FailureClass(failed)

\* C16 amended: when a startup step failed, the reported service error code
\* is the code of that step and stays reported through teardown; each code
\* belongs to one failure class, except that a failure to enable adapter
\* logging is reported with the adapter-creation code, so this code stands
\* for adapter creation or adapter logging.
C16_CodeIdentifiesStep ==
    failed # "none" =>
        /\ failed \in StepsOfCode(serviceError)
        /\ \/ ClassOfCode(serviceError) = FailureClass(failed)
           \/ failed = "SetLogging" /\ serviceError = "ErrorCreateNetworkAdapter"

\* C16 witness: bringing the adapter up failed, its own code is reported
\* and Execute returned.
C16_Witness ==
    /\ failed = "BringUp"
    /\ serviceError = "ErrorDeviceBringUp"
    /\ ePc = "Returned"

\* The cleanup goroutines were started (or passed over) by the deferred
\* function.
CleanupLaunched == ePc \in {"Return", "Returned"}

\* The cleanup actions that were attempted.
TasksAttempted == {t \in Tasks : task[t] # "none"}

\* Teardown began in the control loop: on a stop or shutdown request when
\* no error is held, on an error event of the interface watcher otherwise.
FromLoop == ePc \in TeardownPcs /\ failed = "none"
StopRequested == FromLoop /\ err = "nil"
WatcherErrored == FromLoop /\ err # "nil"

\* C21 as claimed: teardown after an error event of the interface watcher
\* attempts the same cleanup actions as teardown after a stop request, all
\* four of them after a complete startup, and Execute reports the watcher's
\* error and classification.
C21_WatcherErrorTearsDownLikeStop ==
    /\ (CleanupLaunched /\ FromLoop) => TasksAttempted = Tasks
    /\ WatcherErrored => serviceError = "ErrorSetNetConfig"

\* C21 amended: after an error event of the interface watcher and after a
\* stop request alike, teardown attempts watcher destruction and adapter
\* close; the PreDown and PostDown scripts are attempted after a stop
\* request and skipped after a watcher error, whose error and
\* classification are what Execute reports.
C21_WatcherErrorSkipsScripts ==
    /\ (CleanupLaunched /\ StopRequested) =>
          TasksAttempted = Tasks /\ serviceError = "ErrorSuccess"
    /\ (CleanupLaunched /\ WatcherErrored) =>
          TasksAttempted = {"WatcherDestroy", "AdapterClose"}
    /\ WatcherErrored => serviceError = "ErrorSetNetConfig" /\ err = "error"

\* C21 witness: Execute returned after a watcher error, with watcher
\* destruction and adapter close attempted and no script.
C21_Witness ==
    /\ ePc = "Returned"
    /\ WatcherErrored
    /\ TasksAttempted = {"WatcherDestroy", "AdapterClose"}

\* The startup step returned successfully in this run.
Succeeded(step) == \E k \in 1..Len(done) : done[k] = step

\* No error was recorded for the run: no startup step failed and the
\* control loop did not end on a watcher error.
NoErrorRecorded == failed = "none" /\ err = "nil" /\ serviceError = "ErrorSuccess"

\* The cleanup actions teardown is to attempt.
DueInTeardown(t) ==
    CASE t \in {"PreDown", "PostDown"} ->
             Succeeded("CreateAdapter") /\ Succeeded("LoadConfig") /\ NoErrorRecorded
      [] t = "WatcherDestroy" -> Succeeded("WatchInterface")
      [] t = "AdapterClose" -> Succeeded("CreateAdapter")

\* C22: when teardown has started its cleanup actions, the PreDown and
\* PostDown scripts are attempted iff the adapter was created, the Config
\* was loaded and no error was recorded, watcher destruction iff a watcher
\* exists and adapter close iff an adapter exists; before that none is
\* attempted, and no action is started a second time.
C22_CleanupConditions ==
    /\ [](\A t \in Tasks :
            IF CleanupLaunched THEN (task[t] # "none") <=> DueInTeardown(t)
                               ELSE task[t] = "none")
    /\ [][\A t \in Tasks :
            task[t] # "none" => task'[t] \in {task[t], "done"}]_vars

\* C22 witness: the adapter could not be created after the watcher was
\* set up; teardown attempted the watcher destruction alone.
C22_Witness ==
    /\ ePc = "Returned"
    /\ failed = "CreateAdapter"
    /\ TasksAttempted = {"WatcherDestroy"}

\* C23: the PreDown script has run by the time the adapter is closed, and
\* the PostDown script has run only when the adapter has been closed.
C23_TeardownOrder ==
    /\ (task["AdapterClose"] = "done" /\ task["PreDown"] # "none") =>
          task["PreDown"] = "done"
    /\ task["PostDown"] = "done" => task["AdapterClose"] = "done"

\* The error held for the run, which the exit code is computed from.
Reported == <<err, serviceError>>

\* C24: a cleanup action that ends with an error changes neither the other
\* cleanup actions nor the error Execute reports: every action that is due
\* stays attempted, and from the start of teardown on the reported error is
\* the one teardown began with.
C24_CleanupFailuresOnlyLogged ==
    /\ [](CleanupLaunched =>
            \A t \in Tasks : DueInTeardown(t) => task[t] # "none")
    /\ [][\A t \in Tasks :
            taskErr'[t] # taskErr[t] =>
                /\ Reported' = Reported
                /\ \A u \in Tasks \ {t} : task'[u] = task[u]]_vars
    /\ [][(ePc \in TeardownPcs) => (Reported' = Reported)]_vars

\* C24 witness: after a stop request the PreDown script failed, the three
\* other cleanup actions ran to their end and no error is reported.
C24_Witness ==
    /\ StopRequested
    /\ taskErr["PreDown"]
    /\ \A t \in Tasks : task[t] = "done"
    /\ serviceError = "ErrorSuccess"

\* C25: the adapter is closed only when the interface watcher, and with it
\* the change callbacks of the MTU monitor, has been destroyed, so that no
\* callback writes the adapter during or after the close.
C25_WatcherStoppedBeforeAdapterClose ==
    task["AdapterClose"] = "done" => task["WatcherDestroy"] # "running"

\* A control request is taken from r in this step, and it is a Stop or
\* Shutdown request (the only requests that cancel ctx) or another one.
TakesRequest == ctrlCount' = ctrlCount + 1
TakesStop == TakesRequest /\ cancelled'
\* The status reported last.
LastStatus == changes[Len(changes)]

\* C34: in the control loop a Stop or Shutdown request makes Execute leave
\* the loop for the teardown, whose first step reports StopPending, and
\* StopPending is reported after every such request; any other request
\* leaves Execute in the loop with its service state, its error and its
\* resources as they were, reporting nothing or, for Interrogate, the
\* status reported last once more.
C34_ControlRequests ==
    /\ [][TakesStop => (ePc = "Loop" /\ ePc' = "Defer")]_vars
    /\ [][(ePc = "Defer") =>
            (/\ ePc' = "Select"
             /\ serviceState' = "StopPending"
             /\ changes' = Append(changes, [state |-> "StopPending",
                                            accepts |-> FALSE,
                                            nDone |-> Len(done)]))]_vars
    /\ [](cancelled => ePc \notin {"Loop"})
    /\ cancelled ~> (serviceState = "StopPending")
    /\ [][(TakesRequest /\ ~cancelled') =>
            (/\ ePc = "Loop" /\ ePc' = "Loop"
             /\ changes' \in {changes, Append(changes, LastStatus)}
             /\ UNCHANGED <<serviceState, started, err, serviceError, watcher,
                            adapter, config, task, cleanupWg>>)]_vars

\* C34 witness: two requests other than Stop were taken, the second an
\* Interrogate that echoed Running, and Execute is still in the loop.
C34_Witness ==
    /\ ePc = "Loop"
    /\ ctrlCount = MaxCtrl
    /\ ~cancelled
    /\ serviceState = "Running"
    /\ Len(changes) >= 2
    /\ changes[Len(changes) - 1].state = "Running"
    /\ LastStatus = changes[Len(changes) - 1]

\* The place of a service state in StartPending, Running, StopPending.
StateRank(st) ==
    CASE st = "StartPending" -> 0
      [] st = "Running"      -> 1
      [] st = "StopPending"  -> 2

\* The positions of the reports of StopPending.
StopPendingReports ==
    {i \in 1..Len(changes) : changes[i].state = "StopPending"}

\* C35: the first state reported is StartPending, the states reported never
\* move backwards along StartPending, Running, StopPending, StopPending is
\* not reported before Execute leaves its body, and from the head of the
\* deferred function on, whatever made Execute leave, StopPending has been
\* reported exactly once and is the last state reported.
C35_StatesNeverMoveBack ==
    /\ changes[1].state = "StartPending"
    /\ \A i, j \in 1..Len(changes) :
         i < j => StateRank(changes[i].state) <= StateRank(changes[j].state)
    /\ ePc \notin TeardownPcs => StopPendingReports = {}
    /\ ePc \in TeardownPcs \ {"Defer"} =>
         StopPendingReports = {Len(changes)}

\* C35 witness: the service was marked as started while the service manager
\* was locked, went through the control loop and returned after a Stop.
C35_Witness ==
    /\ ePc = "Returned"
    /\ scmMarked
    /\ cancelled
    /\ [i \in 1..Len(changes) |-> changes[i].state]
         = <<"StartPending", "Running", "Running", "Running", "StopPending">>

(***************************************************************************)
(*                           runScriptCommand                              *)
(***************************************************************************)

\* Bound on the output lines the subprocess writes.
MaxLines == 2

\* The command strings tried: the empty one and non-empty ones.
Commands == {"", "echo up", "exit 3"}
\* Exit codes of the subprocess.
ExitCodes == {0, 1, 3}

\* ctx.Done() is ready: the 30 s deadline passed, or the deferred cancel()
\* ran when runScriptCommand returned.
ScriptCtxDone == sTimedOut \/ sPc = "Returned"

\* return e
ScriptReturn(e) ==
    /\ sResult' = e
    /\ sPc' = "Returned"

InitScript ==
    /\ sPc = "Entry"
    /\ sCommand \in Commands
    /\ sGate \in BOOLEAN
    /\ sSpawned = 0
    /\ sResult = "none"
    /\ sProc = "none"
    /\ sExitCode = 0
    /\ sDone = << >>
    /\ sTimedOut = FALSE
    /\ sWritten = 0
    /\ sPipe = << >>
    /\ sScan = "off"
    /\ sHeld = 0
    /\ sChan = << >>
    /\ sLog = "off"
    /\ sLogged = << >>
    /\ sWait = "off"

\* No call of runScriptCommand is in progress (the state of the other
\* specifications).
ScriptOff ==
    /\ sPc = "Off"
    /\ sCommand = ""
    /\ sGate = FALSE
    /\ sSpawned = 0
    /\ sResult = "none"
    /\ sProc = "none"
    /\ sExitCode = 0
    /\ sDone = << >>
    /\ sTimedOut = FALSE
    /\ sWritten = 0
    /\ sPipe = << >>
    /\ sScan = "off"
    /\ sHeld = 0
    /\ sChan = << >>
    /\ sLog = "off"
    /\ sLogged = << >>
    /\ sWait = "off"

\* if len(command) == 0 { return nil }
ScriptCheckEmpty ==
    /\ sPc = "Entry"
    /\ IF Len(sCommand) = 0
       THEN ScriptReturn("nil")
       ELSE sPc' = "Gate" /\ UNCHANGED sResult
    /\ UNCHANGED <<sCommand, sGate, sSpawned, sProc, sExitCode, sDone,
                   sTimedOut, sWritten, sPipe, sScan, sHeld, sChan, sLog,
                   sLogged>>
    /\ UNCHANGED sWait
    /\ UNCHANGED nonScriptVars

\* Mutant: the gate is not consulted.
GateRefusesNever == FALSE

\* !conf.AdminBool("DangerousScriptExecution")
GateRefuses == ~sGate

\* if !conf.AdminBool("DangerousScriptExecution") { log; return nil }
\* otherwise ctx, cancel := context.WithTimeout(..., 30*time.Second)
ScriptCheckGate ==
    /\ sPc = "Gate"
    /\ IF GateRefuses
       THEN ScriptReturn("nil")
       ELSE sPc' = "Setup" /\ UNCHANGED sResult
    /\ UNCHANGED <<sCommand, sGate, sSpawned, sProc, sExitCode, sDone,
                   sTimedOut, sWritten, sPipe, sScan, sHeld, sChan, sLog,
                   sLogged>>
    /\ UNCHANGED sWait
    /\ UNCHANGED nonScriptVars

\* COMSPEC lookup with the GetSystemDirectory fallback, os.OpenFile of
\* os.DevNull and os.Pipe: each may fail, and then the error is returned.
ScriptSetup ==
    /\ sPc = "Setup"
    /\ \/ sPc' = "Start" /\ UNCHANGED sResult
       \/ \E e \in {"ErrSystemDirectory", "ErrDevNull", "ErrPipe"} :
            ScriptReturn(e)
    /\ UNCHANGED <<sCommand, sGate, sSpawned, sProc, sExitCode, sDone,
                   sTimedOut, sWritten, sPipe, sScan, sHeld, sChan, sLog,
                   sLogged>>
    /\ UNCHANGED sWait
    /\ UNCHANGED nonScriptVars

\* process, err := os.StartProcess(comspec, nil, procAttr); on success the
\* three goroutines (scanner, logger, process.Wait) are started.
ScriptStart ==
    /\ sPc = "Start"
    /\ \/ /\ sSpawned' = sSpawned + 1
          /\ sProc' = "running"
          /\ sScan' = "scan"
          /\ sLog' = "run"
          /\ sWait' = "run"
          /\ sPc' = "Select"
          /\ UNCHANGED sResult
       \/ /\ ScriptReturn("ErrStartProcess")
          /\ UNCHANGED <<sSpawned, sProc, sScan, sLog, sWait>>
    /\ UNCHANGED <<sCommand, sGate, sExitCode, sDone, sTimedOut, sWritten,
                   sPipe, sHeld, sChan, sLogged>>
    /\ UNCHANGED nonScriptVars

\* The 30 s deadline of ctx passes (the timer runs from the creation of ctx
\* until runScriptCommand returns).
ScriptDeadline ==
    /\ sPc \in {"Setup", "Start", "Select"}
    /\ ~sTimedOut
    /\ sTimedOut' = TRUE
    /\ UNCHANGED <<sPc, sCommand, sGate, sSpawned, sResult, sProc, sExitCode,
                   sDone, sWritten, sPipe, sScan, sHeld, sChan, sLog, sLogged>>
    /\ UNCHANGED sWait
    /\ UNCHANGED nonScriptVars

\* The subprocess writes a line to its standard output or error.
ProcWrite ==
    /\ sProc = "running"
    /\ sWritten < MaxLines
    /\ sWritten' = sWritten + 1
    /\ sPipe' = Append(sPipe, sWritten + 1)
    /\ UNCHANGED <<sPc, sCommand, sGate, sSpawned, sResult, sProc, sExitCode,
                   sDone, sTimedOut, sScan, sHeld, sChan, sLog, sLogged>>
    /\ UNCHANGED sWait
    /\ UNCHANGED nonScriptVars

\* The subprocess exits by itself.
ProcExit ==
    /\ sProc = "running"
    /\ sProc' = "exited"
    /\ \E c \in ExitCodes : sExitCode' = c
    /\ UNCHANGED <<sPc, sCommand, sGate, sSpawned, sResult, sDone, sTimedOut,
                   sWritten, sPipe, sScan, sHeld, sChan, sLog, sLogged>>
    /\ UNCHANGED sWait
    /\ UNCHANGED nonScriptVars

\* go func() { procState, err = process.Wait(); done <- err }()
ProcWaitReturns ==
    /\ sProc \in {"exited", "killed"}
    /\ sWait = "run"
    /\ sWait' = "exit"
    /\ \E e \in {"nil", "error"} : sDone' = << e >>
    /\ UNCHANGED <<sPc, sCommand, sGate, sSpawned, sResult, sProc, sExitCode,
                   sTimedOut, sWritten, sPipe, sScan, sHeld, sChan, sLog,
                   sLogged>>
    /\ UNCHANGED nonScriptVars

\* A done case that returns nil whatever the exit code is.
ScriptSelectDoneAnyExit ==
    /\ sPc = "Select"
    /\ sDone # << >>
    /\ sDone' = << >>
    /\ IF sDone[1] # "nil"
       THEN ScriptReturn("ErrWait")
       ELSE ScriptReturn("nil")
    /\ UNCHANGED <<sCommand, sGate, sSpawned, sProc, sExitCode, sTimedOut,
                   sWritten, sPipe, sScan, sHeld, sChan, sLog, sLogged>>
    /\ UNCHANGED sWait
    /\ UNCHANGED nonScriptVars

\* case err := <-done: a Wait error is returned; otherwise exit code 0 gives
\* nil and any other exit code windows.ERROR_GENERIC_COMMAND_FAILED.
ScriptSelectDone ==
    /\ sPc = "Select"
    /\ sDone # << >>
    /\ sDone' = << >>
    /\ IF sDone[1] # "nil"
       THEN ScriptReturn("ErrWait")
       ELSE IF sExitCode = 0
            THEN ScriptReturn("nil")
            ELSE ScriptReturn("ErrCommandFailed")
    /\ UNCHANGED <<sCommand, sGate, sSpawned, sProc, sExitCode, sTimedOut,
                   sWritten, sPipe, sScan, sHeld, sChan, sLog, sLogged>>
    /\ UNCHANGED sWait
    /\ UNCHANGED nonScriptVars

\* A timeout case that is taken only once the subprocess has gone.
ScriptSelectTimeoutWaits ==
    /\ sPc = "Select"
    /\ sTimedOut
    /\ sProc # "running"
    /\ ScriptReturn("ErrTimeout")
    /\ UNCHANGED <<sCommand, sGate, sSpawned, sProc, sExitCode, sDone,
                   sTimedOut, sWritten, sPipe, sScan, sHeld, sChan, sLog,
                   sLogged>>
    /\ UNCHANGED sWait
    /\ UNCHANGED nonScriptVars

\* case <-ctx.Done(): process.Kill(); return the timeout error.
ScriptSelectTimeout ==
    /\ sPc = "Select"
    /\ sTimedOut
    /\ sProc' = IF sProc = "running" THEN "killed" ELSE sProc
    /\ ScriptReturn("ErrTimeout")
    /\ UNCHANGED <<sCommand, sGate, sSpawned, sExitCode, sDone, sTimedOut,
                   sWritten, sPipe, sScan, sHeld, sChan, sLog, sLogged>>
    /\ UNCHANGED sWait
    /\ UNCHANGED nonScriptVars

\* scanner.Scan() returns a line of the pipe.
ScanRead ==
    /\ sScan = "scan"
    /\ sPc # "Returned"
    /\ sPipe # << >>
    /\ sHeld' = Head(sPipe)
    /\ sPipe' = Tail(sPipe)
    /\ sScan' = "send"
    /\ UNCHANGED <<sPc, sCommand, sGate, sSpawned, sResult, sProc, sExitCode,
                   sDone, sTimedOut, sWritten, sChan, sLog, sLogged>>
    /\ UNCHANGED sWait
    /\ UNCHANGED nonScriptVars

\* scanner.Scan() returns false: end of the pipe (the subprocess is gone
\* and the pipe is empty), or the deferred reader.Close() ran.
ScanEnd ==
    /\ sScan = "scan"
    /\ \/ sPc = "Returned"
       \/ sProc \in {"exited", "killed"} /\ sPipe = << >>
    /\ sScan' = "exit"
    /\ UNCHANGED <<sPc, sCommand, sGate, sSpawned, sResult, sProc, sExitCode,
                   sDone, sTimedOut, sWritten, sPipe, sHeld, sChan, sLog,
                   sLogged>>
    /\ UNCHANGED sWait
    /\ UNCHANGED nonScriptVars

\* select { case outputChan <- scanner.Text(): }
ScanSend ==
    /\ sScan = "send"
    /\ sChan' = Append(sChan, sHeld)
    /\ sScan' = "scan"
    /\ UNCHANGED <<sPc, sCommand, sGate, sSpawned, sResult, sProc, sExitCode,
                   sDone, sTimedOut, sWritten, sPipe, sHeld, sLog, sLogged>>
    /\ UNCHANGED sWait
    /\ UNCHANGED nonScriptVars

\* select { case <-ctx.Done(): return } of the scanner goroutine.
ScanCancelled ==
    /\ sScan = "send"
    /\ ScriptCtxDone
    /\ sScan' = "exit"
    /\ UNCHANGED <<sPc, sCommand, sGate, sSpawned, sResult, sProc, sExitCode,
                   sDone, sTimedOut, sWritten, sPipe, sHeld, sChan, sLog,
                   sLogged>>
    /\ UNCHANGED sWait
    /\ UNCHANGED nonScriptVars

\* case output, ok := <-outputChan: log.Printf("cmd> %s", output)
LogLine ==
    /\ sLog = "run"
    /\ sChan # << >>
    /\ sLogged' = Append(sLogged, Head(sChan))
    /\ sChan' = Tail(sChan)
    /\ UNCHANGED <<sPc, sCommand, sGate, sSpawned, sResult, sProc, sExitCode,
                   sDone, sTimedOut, sWritten, sPipe, sScan, sHeld, sLog>>
    /\ UNCHANGED sWait
    /\ UNCHANGED nonScriptVars

\* select { case <-ctx.Done(): return } of the logger goroutine.
LogCancelled ==
    /\ sLog = "run"
    /\ ScriptCtxDone
    /\ sLog' = "exit"
    /\ UNCHANGED <<sPc, sCommand, sGate, sSpawned, sResult, sProc, sExitCode,
                   sDone, sTimedOut, sWritten, sPipe, sScan, sHeld, sChan,
                   sLogged>>
    /\ UNCHANGED sWait
    /\ UNCHANGED nonScriptVars

NextScript ==
    \/ ScriptCheckEmpty \/ ScriptCheckGate \/ ScriptSetup \/ ScriptStart
    \/ ScriptDeadline \/ ProcWrite \/ ProcExit \/ ProcWaitReturns
    \/ ScriptSelectDone \/ ScriptSelectTimeout
    \/ ScanRead \/ ScanEnd \/ ScanSend \/ ScanCancelled
    \/ LogLine \/ LogCancelled

(***************************************************************************)
(*                     Properties of runScriptCommand                      *)
(***************************************************************************)

\* C5: with the DangerousScriptExecution gate disabled, or with an empty
\* command, runScriptCommand never spawns a subprocess, and when it returns
\* it returns success.
C5_GateDisabledSpawnsNothing ==
    (~sGate \/ sCommand = "") =>
        /\ sSpawned = 0
        /\ sProc = "none"
        /\ sPc = "Returned" => sResult = "nil"

\* C5 witness: a non-empty command was refused by the disabled gate.
C5_Witness ==
    sPc = "Returned" /\ ~sGate /\ sCommand # "" /\ sResult = "nil"

\* The call runs the script: the command is not empty and the gate is open.
ScriptRuns == sGate /\ sCommand # ""

\* A call that returned although its subprocess did not exit by itself
\* killed the subprocess and returned the timeout error, and the timeout
\* error is returned only after the 30 s deadline.
TimeoutKills ==
    /\ (sPc = "Returned" /\ sSpawned > 0 /\ sProc # "exited") =>
           sProc = "killed" /\ sResult = "ErrTimeout"
    /\ sResult = "ErrTimeout" => sTimedOut /\ sProc # "running"

ExitedInTime ==
    /\ sPc = "Returned"
    /\ sProc = "exited"
    /\ ~sTimedOut
    /\ sResult # "ErrWait"

ScriptAllEnded == sPc = "Returned" /\ sScan = "exit" /\ sLog = "exit"

\* C36: once runScriptCommand has returned and the goroutines that drain
\* the output have ended, every line the subprocess wrote has been logged,
\* in the order written.
C36_NoOutputLineLost ==
    ScriptAllEnded => sLogged = [i \in 1..sWritten |-> i]

(***************************************************************************)
(*                            resolveHostname                              *)
(***************************************************************************)

\* Bound on the calls of resolveHostname in one run.
MaxCalls == 2
\* Bound on the waits between calls.
MaxIdle == 2
\* Bound on the lookups that do not answer within dnsTimeout.
MaxTimeouts == 1

\* dnsCacheDuration = 5 * time.Minute, in seconds.
DnsCacheDuration == 300
\* dnsTimeout = 10 * time.Second
DnsTimeout == 10
\* maxTries := 5
MaxTriesNormal == 5
\* maxTries = 10 when started at boot
MaxTriesBoot == 10
\* min(1<<uint(i-1), 8)
MaxBackoff == 8

Hosts == {"vpn.example.org", "alt.example.org"}
Addrs == {"192.0.2.1", "192.0.2.2"}
\* How long the process is idle between two calls, in seconds.
IdleWaits == {1, 299}
NoEntry == [ip |-> "", timestamp |-> -1]
\* The errors resolveHostnameOnce returns.
LookupErrors == {"WSATRY_AGAIN", "WSAHOST_NOT_FOUND", "WSAEINVAL"}

\* An empty channel buffer; in a result, late tells that the lookup that sent
\* it had been abandoned by its select.
NoResult == [ip |-> "", err |-> "none", late |-> FALSE]
\* The results resolveHostnameOnce hands to its channel.
LookupResults(late) ==
    {[ip |-> a, err |-> "nil", late |-> late] : a \in Addrs}
        \cup {[ip |-> "", err |-> e, late |-> late] : e \in LookupErrors}

\* Mutant: one channel, made before the loop, serves all iterations.
ChannelMadeOnce == FALSE

\* resultCh := make(chan ..., 1) is executed in every iteration, so the
\* channel an abandoned lookup sends to is not the one a later select reads.
ChannelPerIteration == TRUE

\* Mutant: the cache is never consulted.
CacheHitNever(name) == FALSE

\* Mutant: an entry is returned whatever its age.
CacheHitAnyAge(name) == dCache[name] # NoEntry

\* entry, exists := dnsCache.entries[name]; exists &&
\* time.Since(entry.timestamp) < dnsCacheDuration
CacheHit(name) ==
    /\ dCache[name] # NoEntry
    /\ dNow - dCache[name].timestamp < DnsCacheDuration

\* backoff := time.Duration(min(1<<uint(i-1), 8)) * time.Second
Backoff(i) == Min(Pow2_rec[i - 1], MaxBackoff)

\* Mutant: a WSATRY_AGAIN error is returned to the caller.
RetriesOnlyAtBoot(e) == e = "WSAHOST_NOT_FOUND" /\ dBoot

\* Mutant: every lookup error is followed by another try.
RetriesAlways(e) == TRUE

\* if result.err == windows.WSATRY_AGAIN { continue }
\* if result.err == windows.WSAHOST_NOT_FOUND && services.StartedAtBoot() { continue }
Retries(e) ==
    \/ e = "WSATRY_AGAIN"
    \/ e = "WSAHOST_NOT_FOUND" /\ dBoot

\* return ip, e
DnsReturn(ip, e) ==
    /\ dRet' = [ip |-> ip, err |-> e]
    /\ dPc' = "Returned"

InitDns ==
    /\ dPc = "Idle"
    /\ dBoot \in BOOLEAN
    /\ dNow = 0
    /\ dCache = [h \in Hosts |-> NoEntry]
    /\ dHost = ""
    /\ dI = 0
    /\ dMaxTries = 0
    /\ dLookups = 0
    /\ dSleeps = << >>
    /\ dAllTryAgain = TRUE
    /\ dRet = [ip |-> "", err |-> "none"]
    /\ dCalls = 0
    /\ dIdle = 0
    /\ dTimeouts = 0
    /\ dCallTime = 0
    /\ dCallEntry = NoEntry
    /\ dLastErr = "none"
    /\ dCh = NoResult
    /\ dOrphan = 0
    /\ dLate = 0
    /\ dRecv = NoResult

\* No resolution takes place (the state of the other specifications).
DnsOff ==
    /\ dPc = "Off"
    /\ dBoot = FALSE
    /\ dNow = 0
    /\ dCache = [h \in Hosts |-> NoEntry]
    /\ dHost = ""
    /\ dI = 0
    /\ dMaxTries = 0
    /\ dLookups = 0
    /\ dSleeps = << >>
    /\ dAllTryAgain = TRUE
    /\ dRet = [ip |-> "", err |-> "none"]
    /\ dCalls = 0
    /\ dIdle = 0
    /\ dTimeouts = 0
    /\ dCallTime = 0
    /\ dCallEntry = NoEntry
    /\ dLastErr = "none"
    /\ dCh = NoResult
    /\ dOrphan = 0
    /\ dLate = 0
    /\ dRecv = NoResult

\* Time passes between two calls.
DnsIdle ==
    /\ dPc = "Idle"
    /\ dIdle < MaxIdle
    /\ dIdle' = dIdle + 1
    /\ \E w \in IdleWaits : dNow' = dNow + w
    /\ UNCHANGED <<dPc, dBoot, dCache, dHost, dI, dMaxTries, dLookups, dSleeps,
                   dAllTryAgain, dRet, dCalls, dCallTime, dCallEntry>>
    /\ UNCHANGED dTimeouts
    /\ UNCHANGED dLastErr
    /\ UNCHANGED <<dCh, dOrphan, dLate, dRecv>>
    /\ UNCHANGED nonDnsVars

\* resolveHostname(name) is called.
DnsCall ==
    /\ dPc = "Idle"
    /\ dCalls < MaxCalls
    /\ dCalls' = dCalls + 1
    /\ \E h \in Hosts :
         /\ dHost' = h
         /\ dCallEntry' = dCache[h]
    /\ dCallTime' = dNow
    /\ dPc' = "Check"
    /\ UNCHANGED <<dBoot, dNow, dCache, dIdle, dI, dMaxTries, dLookups,
                   dSleeps, dAllTryAgain, dRet>>
    /\ UNCHANGED dTimeouts
    /\ UNCHANGED dLastErr
    /\ UNCHANGED <<dCh, dOrphan, dLate, dRecv>>
    /\ UNCHANGED nonDnsVars

\* The cache look-up under the read lock, then maxTries := 5, or 10 when
\* started at boot.
DnsCheckCache ==
    /\ dPc = "Check"
    /\ IF CacheHit(dHost)
       THEN /\ DnsReturn(dCache[dHost].ip, "nil")
            /\ UNCHANGED dMaxTries
       ELSE /\ dMaxTries' = IF dBoot THEN MaxTriesBoot ELSE MaxTriesNormal
            /\ dPc' = "Iter"
            /\ UNCHANGED dRet
    /\ UNCHANGED <<dBoot, dNow, dCache, dHost, dI, dLookups, dSleeps,
                   dAllTryAgain, dCalls, dIdle, dCallTime, dCallEntry>>
    /\ UNCHANGED dTimeouts
    /\ UNCHANGED dLastErr
    /\ UNCHANGED <<dCh, dOrphan, dLate, dRecv>>
    /\ UNCHANGED nonDnsVars

\* Head of one iteration: i < maxTries; for i > 0 the sleep of the backoff;
\* then the channel is made, the lookup goroutine is started and the call
\* waits in the select.
DnsIterate ==
    /\ dPc = "Iter"
    /\ dI < dMaxTries
    /\ IF dI > 0
       THEN /\ dSleeps' = Append(dSleeps, << dI, Backoff(dI) >>)
            /\ dNow' = dNow + Backoff(dI)
       ELSE UNCHANGED <<dSleeps, dNow>>
    /\ dLookups' = dLookups + 1
    /\ dCh' = IF ChannelPerIteration THEN NoResult ELSE dCh
    /\ dPc' = "Select"
    /\ UNCHANGED <<dBoot, dCache, dHost, dI, dMaxTries, dAllTryAgain, dRet,
                   dCalls, dIdle, dCallTime, dCallEntry>>
    /\ UNCHANGED dTimeouts
    /\ UNCHANGED dLastErr
    /\ UNCHANGED <<dOrphan, dLate, dRecv>>
    /\ UNCHANGED nonDnsVars

\* The goroutine of the current lookup: resolveHostnameOnce answers and
\* the result is sent to resultCh, whose buffer holds one result.
DnsAnswer ==
    /\ dPc = "Select"
    /\ dCh = NoResult
    /\ \E r \in LookupResults(FALSE) : dCh' = r
    /\ UNCHANGED <<dPc, dBoot, dNow, dCache, dHost, dI, dMaxTries, dLookups,
                   dSleeps, dAllTryAgain, dRet, dCalls, dIdle, dCallTime,
                   dCallEntry, dTimeouts, dLastErr, dOrphan, dLate, dRecv>>
    /\ UNCHANGED nonDnsVars

\* The loop ends with i = maxTries: return "", windows.WSAHOST_NOT_FOUND
DnsExhausted ==
    /\ dPc = "Iter"
    /\ dI >= dMaxTries
    /\ DnsReturn("", "WSAHOST_NOT_FOUND")
    /\ UNCHANGED <<dBoot, dNow, dCache, dHost, dI, dMaxTries, dLookups,
                   dSleeps, dAllTryAgain, dCalls, dIdle, dCallTime, dCallEntry>>
    /\ UNCHANGED dTimeouts
    /\ UNCHANGED dLastErr
    /\ UNCHANGED <<dCh, dOrphan, dLate, dRecv>>
    /\ UNCHANGED nonDnsVars

\* case result := <-resultCh with result.err == nil: the cache entry is
\* written with the current time and the address is returned.
DnsLookupOk ==
    /\ dPc = "Select"
    /\ dCh # NoResult
    /\ dCh.err = "nil"
    /\ dCache' = [dCache EXCEPT ![dHost] = [ip |-> dCh.ip, timestamp |-> dNow]]
    /\ DnsReturn(dCh.ip, "nil")
    /\ dAllTryAgain' = FALSE
    /\ UNCHANGED <<dBoot, dNow, dHost, dI, dMaxTries, dLookups, dSleeps,
                   dCalls, dIdle, dCallTime, dCallEntry>>
    /\ UNCHANGED dTimeouts
    /\ dLastErr' = "nil"
    /\ dRecv' = dCh
    /\ dCh' = NoResult
    /\ UNCHANGED <<dOrphan, dLate>>
    /\ UNCHANGED nonDnsVars

\* case result := <-resultCh with an error: continue or return it.
DnsLookupError ==
    /\ dPc = "Select"
    /\ dCh # NoResult
    /\ dCh.err \in LookupErrors
    /\ \E e \in {dCh.err} :
         /\ dAllTryAgain' = (dAllTryAgain /\ e = "WSATRY_AGAIN")
         /\ dLastErr' = e
         /\ IF Retries(e)
            THEN /\ dI' = dI + 1
                 /\ dPc' = "Iter"
                 /\ UNCHANGED dRet
            ELSE /\ DnsReturn("", e)
                 /\ UNCHANGED dI
    /\ UNCHANGED <<dBoot, dNow, dCache, dHost, dMaxTries, dLookups, dSleeps,
                   dCalls, dIdle, dCallTime, dCallEntry>>
    /\ UNCHANGED dTimeouts
    /\ dRecv' = dCh
    /\ dCh' = NoResult
    /\ UNCHANGED <<dOrphan, dLate>>
    /\ UNCHANGED nonDnsVars

\* What a timeout leaves behind: a lookup that is still running, or its
\* result in a channel that no select reads any more.
DnsAbandon ==
    IF dCh = NoResult
    THEN /\ dOrphan' = dOrphan + 1
         /\ UNCHANGED <<dCh, dLate>>
    ELSE IF ChannelPerIteration
    THEN /\ dLate' = dLate + 1
         /\ dCh' = NoResult
         /\ UNCHANGED dOrphan
    ELSE /\ dCh' = [dCh EXCEPT !.late = TRUE]
         /\ UNCHANGED <<dOrphan, dLate>>

\* case <-resolveCtx.Done(): dnsTimeout has passed since the lookup was
\* started; the timeout is logged and the loop continues.
DnsLookupTimeout ==
    /\ dPc = "Select"
    /\ dTimeouts < MaxTimeouts
    /\ dTimeouts' = dTimeouts + 1
    /\ dNow' = dNow + DnsTimeout
    /\ dAllTryAgain' = FALSE
    /\ dI' = dI + 1
    /\ dPc' = "Iter"
    /\ UNCHANGED <<dBoot, dCache, dHost, dMaxTries, dLookups, dSleeps, dRet,
                   dCalls, dIdle, dCallTime, dCallEntry>>
    /\ dLastErr' = "timeout"
    /\ DnsAbandon
    /\ UNCHANGED dRecv
    /\ UNCHANGED nonDnsVars

\* The goroutine of an abandoned lookup: resolveHostnameOnce answers after
\* all and the result is sent to the channel the goroutine was started with;
\* the buffer takes it and the goroutine ends.
DnsLate ==
    /\ dOrphan > 0
    /\ dOrphan' = dOrphan - 1
    /\ IF ChannelPerIteration
       THEN /\ dLate' = dLate + 1
            /\ UNCHANGED dCh
       ELSE /\ dCh = NoResult
            /\ \E r \in LookupResults(TRUE) : dCh' = r
            /\ UNCHANGED dLate
    /\ UNCHANGED <<dPc, dBoot, dNow, dCache, dHost, dI, dMaxTries, dLookups,
                   dSleeps, dAllTryAgain, dRet, dCalls, dIdle, dCallTime,
                   dCallEntry, dTimeouts, dLastErr, dRecv>>
    /\ UNCHANGED nonDnsVars

\* The caller has taken the result; the locals of the call are gone.
DnsFinish ==
    /\ dPc = "Returned"
    /\ dPc' = "Idle"
    /\ dHost' = ""
    /\ dI' = 0
    /\ dMaxTries' = 0
    /\ dLookups' = 0
    /\ dSleeps' = << >>
    /\ dAllTryAgain' = TRUE
    /\ dRet' = [ip |-> "", err |-> "none"]
    /\ dCallTime' = 0
    /\ dCallEntry' = NoEntry
    /\ UNCHANGED <<dBoot, dNow, dCache, dCalls, dIdle, dTimeouts>>
    /\ dLastErr' = "none"
    /\ dRecv' = NoResult
    /\ UNCHANGED <<dCh, dOrphan, dLate>>
    /\ UNCHANGED nonDnsVars

NextDns ==
    \/ DnsIdle \/ DnsCall \/ DnsCheckCache \/ DnsIterate \/ DnsExhausted
    \/ DnsAnswer \/ DnsLookupOk \/ DnsLookupError \/ DnsLookupTimeout
    \/ DnsLate \/ DnsFinish

(***************************************************************************)
(*                      Properties of resolveHostname                      *)
(***************************************************************************)

\* The cache held an entry for the host, younger than 5 minutes, when the
\* call began.
FreshAtCall == dCallEntry # NoEntry /\ dCallTime - dCallEntry.timestamp < 300

\* The sleeps of a call that made n tries: min(2^(i-1), 8) seconds before
\* each try i > 0.
ExpectedSleeps(n) ==
    [i \in 1..(n - 1) |-> << i, IF Pow2_rec[i - 1] < 8 THEN Pow2_rec[i - 1] ELSE 8 >>]

\* C6: a call that finds a cache entry younger than 5 minutes returns the
\* cached address, makes no lookup and does not sleep, in boot and non-boot
\* mode alike.
C6_FreshCacheEntryReturned ==
    (dPc \in {"Iter", "Select", "Returned"} /\ FreshAtCall) =>
        /\ dPc = "Returned"
        /\ dRet = [ip |-> dCallEntry.ip, err |-> "nil"]
        /\ dLookups = 0
        /\ dSleeps = << >>

\* C6 witness: a call answered from an entry that is 299 seconds old.
C6_Witness ==
    /\ dPc = "Returned"
    /\ dCallEntry # NoEntry
    /\ dCallTime - dCallEntry.timestamp = 299
    /\ dRet.ip = dCallEntry.ip

\* C7: when every lookup of a call returns "try again", the call makes
\* exactly maxTries lookups (5, or 10 in boot mode), sleeps min(2^(i-1), 8)
\* seconds before each try i > 0 and not before try 0, and returns "host
\* not found"; "try again" is never returned to the caller.
C7_TryAgainExhaustsTries ==
    /\ dRet.err # "WSATRY_AGAIN"
    /\ (dPc = "Returned" /\ dLookups > 0 /\ dAllTryAgain) =>
          /\ dLookups = (IF dBoot THEN 10 ELSE 5)
          /\ dSleeps = ExpectedSleeps(dLookups)
          /\ dRet = [ip |-> "", err |-> "WSAHOST_NOT_FOUND"]

\* C7 witness: a boot-mode call whose ten lookups all returned "try again".
C7_Witness ==
    dPc = "Returned" /\ dBoot /\ dAllTryAgain /\ dLookups = 10

\* The call went on to another try after the last lookup's error: it is at
\* the head of the next iteration or in its lookup, or it returned "host not
\* found" because no tries remained.
TriedAgain ==
    \/ dPc = "Iter" /\ dI < dMaxTries /\ dLookups = dI
    \/ dPc = "Select" /\ dLookups = dI + 1 /\ Len(dSleeps) = dI
    \/ /\ dPc \in {"Iter", "Returned"}
       /\ dI = dMaxTries /\ dLookups = dMaxTries
       /\ dPc = "Returned" => dRet = [ip |-> "", err |-> "WSAHOST_NOT_FOUND"]

\* The call ended with the last lookup's error e: it returned e, and made
\* no lookup and slept no backoff after the lookup that failed.
EndedAtOnce(e) ==
    /\ dPc = "Returned"
    /\ dRet = [ip |-> "", err |-> e]
    /\ dLookups = dI + 1
    /\ Len(dSleeps) = dI

\* C20: after a "try again" error of a lookup resolveHostname makes another
\* try while tries remain; after a "host not found" error it does so only
\* in boot mode and otherwise returns that error at once; after any other
\* lookup error it returns that same error at once, with no further lookup
\* and no sleep.
C20_RetryRules ==
    /\ dLastErr = "WSATRY_AGAIN" => TriedAgain
    /\ dLastErr = "WSAHOST_NOT_FOUND" =>
          IF dBoot THEN TriedAgain ELSE EndedAtOnce("WSAHOST_NOT_FOUND")
    /\ dLastErr \in LookupErrors \ {"WSATRY_AGAIN", "WSAHOST_NOT_FOUND"} =>
          EndedAtOnce(dLastErr)

\* C20 witness: outside boot mode the first lookup returned "try again" and
\* the second "host not found", which ended the call.
C20_Witness ==
    /\ ~dBoot
    /\ dLastErr = "WSAHOST_NOT_FOUND"
    /\ dPc = "Returned"
    /\ dLookups = 2
    /\ dSleeps = << <<1, 1>> >>

\* The call returned an address.
ReturnedAddress == dPc = "Returned" /\ dRet.err = "nil"

\* The returned address is that of the entry the call found in the cache,
\* which was younger than 5 minutes; the call made no lookup.
FromFreshEntry ==
    /\ FreshAtCall
    /\ dRet.ip = dCallEntry.ip
    /\ dLookups = 0
    /\ dCache[dHost] = dCallEntry

\* The returned address is the answer of the call's last lookup, and the
\* cache entry of the host holds it with the current time.
FromLookup ==
    /\ dLookups > 0
    /\ dLastErr = "nil"
    /\ dRet.ip \in Addrs
    /\ dCache[dHost] = [ip |-> dRet.ip, timestamp |-> dNow]

\* C27: an address returned by resolveHostname is a cache entry younger
\* than 5 minutes or the answer of a successful lookup of that call, and
\* then the host's cache entry holds that address and the current time at
\* the return; the cache changes in no other step, so a failed or timed-out
\* lookup creates or changes no entry.
C27_CacheDiscipline ==
    /\ [](ReturnedAddress => FromFreshEntry \/ FromLookup)
    /\ [][dCache' # dCache =>
            /\ dPc = "Select" /\ dPc' = "Returned"
            /\ dLastErr' = "nil" /\ dRet'.err = "nil"
            /\ \A h \in Hosts \ {dHost} : dCache'[h] = dCache[h]]_vars

\* C27 witness: the entry found was 5 minutes old or older, a lookup was
\* made and its answer replaced the entry.
C27_Witness ==
    /\ ReturnedAddress
    /\ dCallEntry # NoEntry
    /\ dCallTime - dCallEntry.timestamp >= 300
    /\ FromLookup

\* The step in which a select gives up its lookup after dnsTimeout.
TimesOut == dTimeouts' = dTimeouts + 1

\* The step in which an abandoned lookup hands over its result.
AnswersLate == dOrphan' < dOrphan

\* C28: a lookup that has not answered within 10 seconds costs one try and,
\* at boot or not, the next step of the call is a new lookup while tries
\* remain; a result of an abandoned lookup is never received by a select,
\* so it is neither returned nor cached, and its delivery changes nothing
\* of the call, which makes no more lookups than maxTries whether or not
\* abandoned lookups are outstanding.
C28_TimeoutAbandonsLookup ==
    /\ [][TimesOut =>
            /\ dPc = "Select" /\ dPc' = "Iter"
            /\ dI' = dI + 1
            /\ dNow' = dNow + DnsTimeout
            /\ dCache' = dCache /\ dRet' = dRet]_vars
    /\ [][(dPc = "Iter" /\ dLastErr = "timeout" /\ dPc' # dPc) =>
            IF dI < dMaxTries
            THEN dPc' = "Select" /\ dLookups' = dLookups + 1
            ELSE dRet' = [ip |-> "", err |-> "WSAHOST_NOT_FOUND"]]_vars
    /\ [](~dRecv.late /\ ~dCh.late)
    /\ [](ReturnedAddress /\ dLookups > 0 =>
            dRet.ip = dRecv.ip /\ dCache[dHost].ip = dRecv.ip)
    /\ [][AnswersLate =>
            UNCHANGED <<dPc, dRet, dCache, dCh, dI, dLookups, dNow>>]_vars
    /\ [](dPc \in {"Iter", "Select"} =>
            /\ dLookups = dI + (IF dPc = "Select" THEN 1 ELSE 0)
            /\ dLookups <= dMaxTries)

\* C28 witness: not started at boot, the first lookup timed out, the second
\* one answered and its address was returned, and the abandoned lookup has
\* delivered its result in the meantime.
C28_Witness ==
    /\ ~dBoot
    /\ ReturnedAddress
    /\ dLookups = 2
    /\ dTimeouts = 1
    /\ dNow = dCallTime + DnsTimeout + 1
    /\ dLate = 1
    /\ dRet.ip = dRecv.ip

(***************************************************************************)
(*                         monitorMTU / updateMTU                          *)
(***************************************************************************)

\* Bound on the updateMTU calls of one run.
MaxMtuCalls == 3
\* Bound on the clock ticks of one run.
MaxTicks == 2

\* if now.Sub(state.lastUpdate) < 250*time.Millisecond
ThrottleMs == 250
\* newMTU := mtu - 80
MtuOverhead == 80
\* state.minMTU = 576 for windows.AF_INET
MinMTUv4 == 576
\* state.minMTU = 1280 for windows.AF_INET6
MinMTUv6 == 1280
\* The tunnel's own interface.
OurLUID == 9

\* A uint32 is kept as its two 16-bit halves, hi * 2^16 + lo, so that
\* arithmetic wraps at 2^32 as the program's does.
U16 == 65536
U32Of(n) == [hi |-> (n \div U16) % U16, lo |-> n % U16]
\* ^uint32(0)
U32Max == [hi |-> U16 - 1, lo |-> U16 - 1]
\* a + b and a - b in uint32.
U32Add(a, b) ==
    LET lo == a.lo + b.lo
    IN  [hi |-> (a.hi + b.hi + lo \div U16) % U16, lo |-> lo % U16]
U32Sub(a, b) ==
    LET borrow == IF a.lo < b.lo THEN 1 ELSE 0
    IN  [hi |-> (a.hi - b.hi - borrow) % U16, lo |-> (a.lo - b.lo) % U16]
\* a < b in uint32.
U32Less(a, b) == a.hi < b.hi \/ (a.hi = b.hi /\ a.lo < b.lo)
\* The zero time.Time of a fresh mtuState.
NeverUpdated == -1
\* The clock advances in steps of this many milliseconds.
TickSteps == {250}
\* The sources of updateMTU calls: the initial call of monitorMTU and the
\* two registered callbacks.
Sources == {"startup", "route", "iface"}
\* What can fail in one updateMTU call.
Failures == {"none", "GetIPForwardTable2", "Interface", "IPInterface", "Set"}

Route(len, luid, metric) ==
    [prefixLen |-> len, luid |-> luid, index |-> luid, metric |-> metric]
Iface(up, metric, mtu) == [up |-> up, metric |-> metric, mtu |-> mtu]

\* The routing tables tried.
RouteTables ==
    { << Route(0, 1, 10) >>,
      << Route(0, OurLUID, 1), Route(0, 1, 10), Route(0, 2, 5) >>,
      << Route(24, 1, 1) >> }

\* The interfaces 1 and 2 of the host, with the MTU of each, and the tunnel's.
Ifs(m1, m2) ==
    1 :> Iface(TRUE, U32Of(5), m1) @@ 2 :> Iface(TRUE, U32Of(5), m2)
      @@ OurLUID :> Iface(TRUE, U32Of(1), 1420)

\* The states of the host's network tried: a routing table and the
\* interfaces.
Envs ==
    { [routes |-> << Route(0, 1, 10) >>, ifs |-> Ifs(1500, 600)],
      [routes |-> << Route(0, 1, 10) >>, ifs |-> Ifs(40, 600)],
      [routes |-> << Route(0, OurLUID, 1), Route(0, 1, 10), Route(0, 2, 5) >>,
       ifs |-> Ifs(1500, 600)],
      [routes |-> << Route(24, 1, 1) >>, ifs |-> Ifs(1500, 600)],
      [routes |-> << Route(0, OurLUID, 1), Route(0, 1, 10), Route(0, 2, 5) >>,
       ifs |-> [Ifs(1500, 600) EXCEPT ![2].up = FALSE]],
      [routes |-> << Route(0, 1, 0) >>,
       ifs |-> [Ifs(1500, 600) EXCEPT ![1].metric = U32Max]] }

\* The second loop of findDefaultLUID over eligibleRoutes[i..]: acc is
\* (lowestMetric, chosenIndex, chosenLUID).
RECURSIVE LowestMetric(_, _, _, _)
LowestMetric(rs, ifs, i, acc) ==
    IF i > Len(rs) THEN acc
    ELSE LET r == rs[i]
             metric == U32Add(U32Of(r.metric), ifs[r.luid].metric)
         IN  IF ~ifs[r.luid].up
             THEN LowestMetric(rs, ifs, i + 1, acc)
             ELSE IF U32Less(metric, acc.lowest)
                  THEN LowestMetric(rs, ifs, i + 1,
                           [lowest |-> metric, index |-> r.index, luid |-> r.luid])
                  ELSE LowestMetric(rs, ifs, i + 1, acc)

\* findDefaultLUID: the default routes (prefix length 0) that are not the
\* tunnel's own, and among them the one of lowest metric whose interface is
\* up; LUID 0 when there is none.
FindDefaultLUID(env) ==
    LET eligible == SelectSeq(env.routes,
                        LAMBDA r : r.prefixLen = 0 /\ r.luid # OurLUID)
    IN  LowestMetric(eligible, env.ifs, 1,
                     [lowest |-> U32Max, index |-> 0, luid |-> 0])

\* Mutant: the throttle window is ignored.
ThrottledNever(now) == FALSE

\* now.Sub(state.lastUpdate) < 250*time.Millisecond
Throttled(now) ==
    /\ mState.lastUpdate # NeverUpdated
    /\ now - mState.lastUpdate < ThrottleMs

\* newMTU := mtu - 80 (uint32); if newMTU < state.minMTU { newMTU = state.minMTU }
NewMTU(mtu, minMTU) ==
    LET sub == U32Sub(U32Of(mtu), U32Of(MtuOverhead))
    IN  IF U32Less(sub, U32Of(minMTU)) THEN U32Of(minMTU) ELSE sub

\* Mutant: a default MTU of 0 counts as a change, too.
DefaultChangedOrGone(mtu) == mState.lastMTU # mtu

\* if mtu > 0 && state.lastMTU != mtu
DefaultChanged(mtu) == mtu > 0 /\ mState.lastMTU # mtu

\* Mutant: state.lastMTU = mtu is stored as soon as the default MTU is
\* seen to have changed.
LastMtuAfterAnyOutcome(update, ok, mtu) ==
    IF update THEN mtu ELSE mState.lastMTU

\* state.lastMTU at the end of a call: state.lastMTU = mtu is the last
\* statement of the branch, behind the returns of the errors of IPInterface
\* and Set.
LastMtuAfter(update, ok, mtu) ==
    IF update /\ ok THEN mtu ELSE mState.lastMTU

\* Before any updateMTU call has finished.
NoUpdate == [defMTU |-> 0, wrote |-> FALSE, value |-> U32Of(0),
             failed |-> "none", before |-> U32Of(0)]

InitMtu ==
    /\ mFamily \in {"AF_INET", "AF_INET6"}
    /\ mState = [lastLUID |-> 0, lastIndex |-> U32Max, lastMTU |-> 0,
                 lastUpdate |-> NeverUpdated,
                 minMTU |-> IF mFamily = "AF_INET" THEN MinMTUv4 ELSE MinMTUv6]
    /\ mLock = "free"
    /\ mPc = [c \in Sources |-> "idle"]
    /\ mCall = [c \in Sources |-> [invokedAt |-> 0, lastAtCall |-> NeverUpdated, stamp |-> 0, seen |-> 0]]
    /\ mRegistered = FALSE
    /\ mStartup = "todo"
    /\ mNow = 0
    /\ mEnv \in Envs
    /\ mTunMTU = U32Of(1420)
    /\ mLog = << >>
    /\ mLast = NoUpdate

\* No MTU monitor runs (the state of the other specifications).
MtuOff ==
    /\ mFamily = "AF_INET"
    /\ mState = [lastLUID |-> 0, lastIndex |-> U32Max, lastMTU |-> 0,
                 lastUpdate |-> NeverUpdated, minMTU |-> MinMTUv4]
    /\ mLock = "free"
    /\ mPc = [c \in Sources |-> "off"]
    /\ mCall = [c \in Sources |-> [invokedAt |-> 0, lastAtCall |-> NeverUpdated, stamp |-> 0, seen |-> 0]]
    /\ mRegistered = FALSE
    /\ mStartup = "todo"
    /\ mNow = 0
    /\ mEnv = CHOOSE e \in Envs : TRUE
    /\ mTunMTU = U32Of(1420)
    /\ mLog = << >>
    /\ mLast = NoUpdate

\* Number of updateMTU calls made so far, finished or not.
MtuCallsMade == Len(mLog) + Cardinality({c \in Sources : mPc[c] # "idle"})

\* monitorMTU makes the initial updateMTU call, which then waits for
\* state.mutex.
MtuStartupCall ==
    /\ mStartup = "todo"
    /\ mPc["startup"] = "idle"
    /\ mStartup' = "running"
    /\ mPc' = [mPc EXCEPT !["startup"] = "wait"]
    /\ mCall' = [mCall EXCEPT !["startup"] =
                   [invokedAt |-> mNow, lastAtCall |-> mState.lastUpdate,
                    stamp |-> 0, seen |-> 0]]
    /\ UNCHANGED <<mFamily, mState, mLock, mRegistered, mNow, mEnv,
                   mTunMTU, mLog, mLast>>
    /\ UNCHANGED nonMtuVars

\* The network states a notification of source c can follow: a route
\* change leaves the interfaces as they are, an interface parameter change
\* leaves the routing table as it is.
ChangedEnvs(c) ==
    IF c = "route" THEN {e \in Envs : e.ifs = mEnv.ifs}
                   ELSE {e \in Envs : e.routes = mEnv.routes}

\* The host's network state changes and the registered callback for the
\* change (a route change of prefix length 0, or an interface parameter
\* change) calls updateMTU, which then waits for state.mutex.
MtuNotify ==
    /\ mRegistered
    /\ MtuCallsMade < MaxMtuCalls
    /\ \E c \in Sources \ {"startup"} :
         /\ mPc[c] = "idle"
         /\ \E e \in ChangedEnvs(c) : mEnv' = e
         /\ mPc' = [mPc EXCEPT ![c] = "wait"]
         /\ mCall' = [mCall EXCEPT ![c] =
                        [invokedAt |-> mNow, lastAtCall |-> mState.lastUpdate,
                    stamp |-> 0, seen |-> 0]]
    /\ UNCHANGED <<mFamily, mState, mLock, mRegistered, mStartup, mNow,
                   mTunMTU, mLog, mLast>>
    /\ UNCHANGED nonMtuVars

\* The result of the initial call: on success monitorMTU goes on to
\* register the two callbacks, on failure it returns the error.
StartupAfter(c, ok) ==
    IF c = "startup"
    THEN /\ mStartup' = IF ok THEN "ok" ELSE "failed"
         /\ mRegistered' = ok
    ELSE UNCHANGED <<mStartup, mRegistered>>

\* Mutant: Lock() returns although another call holds the mutex.
MutexFreeAlways == TRUE

\* state.mutex.Lock() returns only when no call holds the mutex.
MutexFree == mLock = "free"

\* state.mutex.Lock(); now := time.Now(); inside the throttle window the
\* call returns nil at once, otherwise state.lastUpdate = now and the call
\* goes on holding the lock.
MtuEnter ==
    /\ MutexFree
    /\ \E c \in Sources :
         /\ mPc[c] = "wait"
         /\ IF Throttled(mNow)
            THEN /\ mLog' = Append(mLog,
                       [src |-> c, invokedAt |-> mCall[c].invokedAt,
                        lastAtCall |-> mCall[c].lastAtCall,
                        stamp |-> mNow, seen |-> mState.lastUpdate,
                        dropped |-> TRUE, queried |-> FALSE, wrote |-> FALSE,
                        changed |-> FALSE, update |-> FALSE,
                        failed |-> "none", defMTU |-> 0])
                 /\ mLast' = [NoUpdate EXCEPT !.before = mTunMTU]
                 /\ mPc' = [mPc EXCEPT ![c] = "idle"]
                 /\ StartupAfter(c, TRUE)
                 /\ UNCHANGED <<mState, mLock, mCall>>
            ELSE /\ mState' = [mState EXCEPT !.lastUpdate = mNow]
                 /\ mCall' = [mCall EXCEPT ![c].stamp = mNow,
                                           ![c].seen = mState.lastUpdate]
                 /\ mLock' = c
                 /\ mPc' = [mPc EXCEPT ![c] = "body"]
                 /\ UNCHANGED <<mLog, mLast, mStartup, mRegistered>>
    /\ UNCHANGED <<mFamily, mNow, mEnv, mTunMTU>>
    /\ UNCHANGED nonMtuVars

\* The body of updateMTU after the throttle, to the deferred Unlock:
\* findDefaultLUID, the MTU of the default interface, and the write of the
\* tunnel interface when the default MTU changed. fail: the system call
\* that fails in this call, if any.
MtuBody ==
    \E c \in Sources, fail \in Failures :
      /\ mPc[c] = "body"
      /\ \E found \in {FindDefaultLUID(mEnv)} :
         LET tableOk == fail # "GetIPForwardTable2"
             luid == IF tableOk THEN found.luid ELSE mState.lastLUID
             ifaceErr == tableOk /\ luid # 0 /\ fail = "Interface"
         IN
         \E mtu \in {IF tableOk /\ luid # 0 /\ ~ifaceErr /\ mEnv.ifs[luid].mtu > 0
                      THEN mEnv.ifs[luid].mtu ELSE 0} :
         \E newMTU \in {NewMTU(mtu, mState.minMTU)} :
         LET update == tableOk /\ ~ifaceErr /\ DefaultChanged(mtu)
             readErr == update /\ fail = "IPInterface"
             write == update /\ ~readErr /\ mTunMTU # newMTU
             setErr == write /\ fail = "Set"
             ok == tableOk /\ ~ifaceErr /\ ~readErr /\ ~setErr
         IN  /\ \/ fail = "none"
                \/ ~tableOk \/ ifaceErr \/ readErr \/ setErr
             /\ mState' = [mState EXCEPT
                             !.lastLUID = luid,
                             !.lastIndex = IF tableOk THEN U32Of(found.index) ELSE @,
                             !.lastMTU = LastMtuAfter(update, ok, mtu)]
             /\ mTunMTU' = IF write /\ ~setErr THEN newMTU ELSE mTunMTU
             /\ mLog' = Append(mLog,
                   [src |-> c, invokedAt |-> mCall[c].invokedAt,
                    lastAtCall |-> mCall[c].lastAtCall,
                    stamp |-> mCall[c].stamp, seen |-> mCall[c].seen,
                    dropped |-> FALSE, queried |-> TRUE,
                    wrote |-> write /\ ~setErr, changed |-> TRUE,
                    update |-> update, failed |-> fail, defMTU |-> mtu])
             /\ mLast' = [defMTU |-> mtu, wrote |-> write /\ ~setErr,
                          value |-> IF write /\ ~setErr THEN newMTU ELSE U32Of(0),
                          failed |-> fail, before |-> mTunMTU]
             /\ StartupAfter(c, ok)
      /\ mLock' = "free"
      /\ mPc' = [mPc EXCEPT ![c] = "idle"]
      /\ UNCHANGED <<mFamily, mCall, mNow, mEnv>>
      /\ UNCHANGED nonMtuVars

\* Time passes.
MtuTick ==
    /\ mNow < MaxTicks * 250
    /\ \E d \in TickSteps : mNow' = mNow + d
    /\ UNCHANGED <<mFamily, mState, mLock, mPc, mCall, mRegistered, mStartup,
                   mEnv, mTunMTU, mLog, mLast>>
    /\ UNCHANGED nonMtuVars

NextMtu == MtuStartupCall \/ MtuNotify \/ MtuEnter \/ MtuBody \/ MtuTick

(***************************************************************************)
(*                        Properties of updateMTU                          *)
(***************************************************************************)

\* |a - b|
Dist(a, b) == IF a < b THEN b - a ELSE a - b

\* C8 (as stated): a call that starts less than 250 ms after the last
\* non-dropped call is a no-op, and two calls that start within 250 ms of
\* each other perform at most one adapter write.
C8_ThrottleByCallStart ==
    /\ \A i \in 1..Len(mLog) :
         (/\ mLog[i].lastAtCall # NeverUpdated
          /\ mLog[i].invokedAt - mLog[i].lastAtCall < ThrottleMs)
         => mLog[i].dropped
    /\ \A i, j \in 1..Len(mLog) :
         (i < j /\ Dist(mLog[i].invokedAt, mLog[j].invokedAt) < ThrottleMs)
         => ~(mLog[i].wrote /\ mLog[j].wrote)

\* C8 (amended): a call whose timestamp, taken once it holds the lock, is
\* less than 250 ms after the timestamp of the last non-dropped call is a
\* no-op (no route query, no adapter write, monitor state unchanged), and
\* two calls whose timestamps are within 250 ms of each other perform at
\* most one adapter write, whatever their source.
C8_ThrottleByLockTimestamp ==
    /\ \A i \in 1..Len(mLog) :
         (/\ mLog[i].seen # NeverUpdated
          /\ mLog[i].stamp - mLog[i].seen < ThrottleMs)
         => /\ mLog[i].dropped
            /\ ~mLog[i].queried
            /\ ~mLog[i].wrote
            /\ ~mLog[i].changed
    /\ \A i, j \in 1..Len(mLog) :
         (i < j /\ Dist(mLog[i].stamp, mLog[j].stamp) < ThrottleMs)
         => ~(mLog[i].wrote /\ mLog[j].wrote)

\* A callback's call was dropped inside the throttle window of a call of
\* another source that wrote the adapter.
C8_Witness ==
    \E i, j \in 1..Len(mLog) :
      /\ i < j
      /\ mLog[i].wrote
      /\ mLog[j].dropped
      /\ mLog[j].src # mLog[i].src
      /\ mLog[j].seen = mLog[i].stamp

\* C9: whenever updateMTU writes the tunnel adapter's MTU, the value
\* written is max(defaultMTU - 80, minMTU), for every defaultMTU > 0.
C9_WrittenValueIsFlooredDifference ==
    mLast.wrote =>
      mLast.value = U32Of(Max(mLast.defMTU - MtuOverhead, mState.minMTU))

\* The MTU of the current default-route interface, 0 when there is none.
DefaultMTU ==
    LET found == FindDefaultLUID(mEnv)
    IN  IF found.luid # 0 THEN mEnv.ifs[found.luid].mtu ELSE 0

\* The monitor is registered, no updateMTU call is in progress, the last
\* call met no failing system call, and there is a default-route interface
\* whose MTU is at least the overhead.
MtuSettled ==
    /\ mStartup = "ok"
    /\ \A c \in Sources : mPc[c] = "idle"
    /\ mLast.failed = "none"
    /\ DefaultMTU >= MtuOverhead

\* The tunnel's MTU is the one derived from the current default route.
MtuDerived ==
    mTunMTU = U32Of(Max(DefaultMTU - MtuOverhead, mState.minMTU))

\* C19: once the notifications have ceased and the started calls have
\* ended, the tunnel's MTU is max(defaultMTU - 80, minMTU) for the current
\* default-route interface and stays so: no notified change is lost. Stated
\* for the runs without a failing system call and with defaultMTU >= 80.
C19_NoNotifiedChangeLost == <>[](MtuSettled => MtuDerived)

\* An updateMTU call ends in this step.
CallEnds == Len(mLog') = Len(mLog) + 1

\* A default route that is not the tunnel's was found, the MTU of its
\* interface is not 0 and is not the last default MTU seen.
DefaultMtuIsNew ==
    /\ FindDefaultLUID(mEnv).luid # 0
    /\ DefaultMTU > 0
    /\ DefaultMTU # mState.lastMTU

\* The tunnel MTU computed from the default MTU is not the adapter's.
ComputedDiffers == NewMTU(DefaultMTU, mState.minMTU) # mTunMTU

\* C30 (as stated): the adapter is written only when a default route was
\* found whose interface MTU is non-zero and new and the computed tunnel
\* MTU differs from the adapter's; in every other case the adapter is left
\* untouched and lastMTU is unchanged.
C30_WriteConditions ==
    [][CallEnds =>
         /\ mTunMTU' # mTunMTU => DefaultMtuIsNew /\ ComputedDiffers
         /\ ~(DefaultMtuIsNew /\ ComputedDiffers) =>
               /\ mTunMTU' = mTunMTU
               /\ mState'.lastMTU = mState.lastMTU]_vars

\* C30 (amended): as above, but when only the last condition fails, the
\* computed tunnel MTU being the adapter's already, lastMTU becomes the
\* default MTU seen, provided the call read both interfaces.
C30_WriteConditionsLastMtuFollows ==
    [][CallEnds =>
         /\ mTunMTU' # mTunMTU => DefaultMtuIsNew /\ ComputedDiffers
         /\ ~(DefaultMtuIsNew /\ ComputedDiffers) =>
               /\ mTunMTU' = mTunMTU
               /\ mState'.lastMTU =
                     IF /\ DefaultMtuIsNew
                        /\ ~mLog'[Len(mLog')].dropped
                        /\ mLast'.failed = "none"
                     THEN DefaultMTU
                     ELSE mState.lastMTU]_vars

\* C30 witness: the default MTU 1500 was new to the monitor, the adapter
\* was at 1420 already; the call wrote nothing and lastMTU is 1500.
C30_Witness ==
    /\ mLog # << >>
    /\ ~mLog[Len(mLog)].dropped
    /\ mLast.defMTU = 1500
    /\ mLast.failed = "none"
    /\ ~mLast.wrote
    /\ mLast.before = U32Of(1420)
    /\ mTunMTU = U32Of(1420)
    /\ mState.lastMTU = 1500
    /\ Len(mLog) = 1

\* The failures of reading or writing the tunnel's interface.
TunnelFailures == {"IPInterface", "Set"}
\* Call j of the log is the first call after call i that was not dropped
\* by the throttle.
NextNonThrottled(i, j) ==
    /\ i < j
    /\ ~mLog[j].dropped
    /\ \A k \in (i + 1)..(j - 1) : mLog[k].dropped
\* Call j saw the default MTU that call i saw.
SameDefaultSeen(i, j) ==
    /\ mLog[j].failed \notin {"GetIPForwardTable2", "Interface"}
    /\ mLog[j].defMTU = mLog[i].defMTU

\* C38: a call that fails at IPInterface or Set leaves lastMTU as it was;
\* the next non-throttled call that sees the same default MTU goes for the
\* tunnel's interface again, and after a failed Set it calls Set again
\* when it can read the interface; lastMTU changes only at the end of a
\* call without a failure, to the default MTU seen, after a write or with
\* the adapter at the computed value already.
C38_FailedUpdateIsRetried ==
    /\ [][(CallEnds /\ mLast'.failed \in TunnelFailures)
            => (mState'.lastMTU = mState.lastMTU /\ mTunMTU' = mTunMTU)]_vars
    /\ [](\A i, j \in 1..Len(mLog) :
            (/\ mLog[i].failed \in TunnelFailures
             /\ NextNonThrottled(i, j)
             /\ SameDefaultSeen(i, j))
            => /\ mLog[j].update
               /\ (mLog[i].failed = "Set" /\ mLog[j].failed # "IPInterface")
                     => (mLog[j].wrote \/ mLog[j].failed = "Set"))
    /\ [][(mState'.lastMTU # mState.lastMTU)
            => /\ CallEnds
               /\ mLast'.failed = "none"
               /\ mState'.lastMTU = mLast'.defMTU
               /\ \/ mLast'.wrote
                  \/ mTunMTU = NewMTU(mLast'.defMTU, mState.minMTU)]_vars

\* C38 witness: Set failed in one call, and the next call that was not
\* throttled saw the same default MTU, wrote the adapter and stored the
\* default MTU as lastMTU.
C38_Witness ==
    \E i, j \in 1..Len(mLog) :
        /\ mLog[i].failed = "Set"
        /\ NextNonThrottled(i, j)
        /\ SameDefaultSeen(i, j)
        /\ mLog[j].wrote
        /\ j = Len(mLog)
        /\ mState.lastMTU = mLog[j].defMTU

\* The sources whose updateMTU call is past state.mutex.Lock().
InUpdate == {c \in Sources : mPc[c] = "body"}

\* C32: at most one updateMTU call is past Lock() at a time, and it is the
\* holder of the mutex; the monitor state changes only in a step of the
\* call that takes or holds the mutex, and the adapter is written only by
\* the call that holds it.
C32_UpdatesSerialized ==
    /\ [](Cardinality(InUpdate) <= 1)
    /\ [](\A c \in Sources : mPc[c] = "body" <=> mLock = c)
    /\ [][mState' # mState =>
            \E c \in Sources :
              /\ mPc'[c] # mPc[c]
              /\ \/ mLock = "free" /\ mLock' = c
                 \/ mLock = c /\ mLock' = "free"
              /\ \A d \in Sources \ {c} : mPc'[d] = mPc[d]]_vars
    /\ [][mTunMTU' # mTunMTU =>
            mLock \in Sources /\ mPc[mLock] = "body" /\ mLock' = "free"]_vars

\* C32 witness: the route callback is inside updateMTU, the interface
\* callback waits for the mutex, and the adapter has been written before.
C32_Witness ==
    /\ mPc["route"] = "body"
    /\ mPc["iface"] = "wait"
    /\ mLock = "route"
    /\ \E i \in 1..Len(mLog) : mLog[i].wrote

\* The routes of the table that may be chosen: prefix length 0, not the
\* tunnel's own interface, interface operationally up.
EligibleRoutes(env) ==
    {i \in 1..Len(env.routes) :
        /\ env.routes[i].prefixLen = 0
        /\ env.routes[i].luid # OurLUID
        /\ env.ifs[env.routes[i].luid].up}

\* Route metric + interface metric as a number, kept as the pair of its
\* part above 2^16 and its part below.
CombinedMetric(env, i) ==
    LET r == env.routes[i]
        m == env.ifs[r.luid].metric
        lo == (r.metric % U16) + m.lo
    IN  << (r.metric \div U16) + m.hi + (lo \div U16), lo % U16 >>

NoHigherThan(a, b) == a[1] < b[1] \/ (a[1] = b[1] /\ a[2] <= b[2])

\* The call that ends in this step has read the routing table.
ChoosesRoute ==
    /\ CallEnds
    /\ ~mLog'[Len(mLog')].dropped
    /\ mLast'.failed # "GetIPForwardTable2"

\* C31: findDefaultLUID chooses, among the routes of prefix length 0 that
\* are not the tunnel's own and whose interface is up, one of lowest route
\* metric + interface metric; it chooses one whenever there is such a
\* route and never another route.
C31_LowestMetricRouteChosen ==
    [][ChoosesRoute =>
         IF EligibleRoutes(mEnv) = {}
         THEN mState'.lastLUID = 0
         ELSE \E i \in EligibleRoutes(mEnv) :
                /\ mState'.lastLUID = mEnv.routes[i].luid
                /\ mState'.lastIndex = U32Of(mEnv.routes[i].index)
                /\ \A j \in EligibleRoutes(mEnv) :
                      NoHigherThan(CombinedMetric(mEnv, i),
                                   CombinedMetric(mEnv, j))]_vars

\* The last call was a callback dropped by the throttle and the tunnel's
\* MTU is not the one derived from the default route it was notified of.
C19_ChangeDroppedByThrottle ==
    /\ MtuSettled
    /\ ~MtuDerived
    /\ mLog # << >>
    /\ mLog[Len(mLog)].dropped
    /\ mLog[Len(mLog)].src # "startup"

(***************************************************************************)
(*                              FromWgQuick                                *)
(***************************************************************************)

\* Bound on the number of lines of a configuration text.
MaxTextLines == 6

\* The zero Key.
ZeroKey == "0"
\* var peer *Peer
NilPeer == [nil |-> TRUE, publicKey |-> ZeroKey]
\* &Peer{}
NewPeer == [nil |-> FALSE, publicKey |-> ZeroKey]

\* A line of the text after strings.Cut(line, "#") and TrimSpace: empty, a
\* section header, "key = val", or text without an equals sign.
Line(t, key, val) == [t |-> t, key |-> key, val |-> val]
Lines ==
    { Line("empty", "", ""),
      Line("[interface]", "", ""),
      Line("[peer]", "", ""),
      Line("kv", "privatekey", "K"),
      Line("kv", "publickey", "A"),
      Line("kv", "publickey", "B"),
      Line("kv", "privatekey", "0"),
      Line("kv", "publickey", "0"),
      Line("kv", "publickey", "x"),
      Line("text", "", "") }

\* parseKeyBase64: the text "x" is not the base64 form of 32 bytes, every
\* other text of Lines is, and "0" is that of 32 zero bytes; the decoded
\* key is returned as it is.
ParseKeyBase64(s) ==
    IF s = "x" THEN [err |-> "Invalid key", key |-> ZeroKey]
    ELSE [err |-> "nil", key |-> s]

\* func (c *Config) maybeAddPeer(p *Peer): appends a copy of *p unless p is nil.
MaybeAddPeer(peers, p) ==
    IF ~p.nil THEN Append(peers, [publicKey |-> p.publicKey]) ELSE peers

\* return nil, &ParseError{...}
ParseFail(e) ==
    /\ pResult' = e
    /\ pPc' = "Returned"

InitParse ==
    /\ pPc = "Loop"
    /\ pLines = << >>
    /\ pState = "notInASection"
    /\ pPeers = << >>
    /\ pPeer = NilPeer
    /\ pPrivateKey = ZeroKey
    /\ pSawPrivateKey = FALSE
    /\ pResult = "none"

\* No parse runs (the state of the other specifications).
ParseOff ==
    /\ pPc = "Off"
    /\ pLines = << >>
    /\ pState = "notInASection"
    /\ pPeers = << >>
    /\ pPeer = NilPeer
    /\ pPrivateKey = ZeroKey
    /\ pSawPrivateKey = FALSE
    /\ pResult = "none"

\* The loop reads the next line l of the text.
ReadLine(l) ==
    /\ pPc = "Loop"
    /\ Len(pLines) < MaxTextLines
    /\ pLines' = Append(pLines, l)

\* if len(line) == 0 { continue }
ParseEmptyLine ==
    /\ ReadLine(Line("empty", "", ""))
    /\ UNCHANGED <<pPc, pState, pPeers, pPeer, pPrivateKey, pSawPrivateKey,
                   pResult>>
    /\ UNCHANGED nonParseVars

\* if strings.EqualFold(line, "[interface]"): the peer is appended and
\* stays the current peer.
ParseInterfaceHeader ==
    /\ ReadLine(Line("[interface]", "", ""))
    /\ pPeers' = MaybeAddPeer(pPeers, pPeer)
    /\ pState' = "inInterfaceSection"
    /\ UNCHANGED <<pPc, pPeer, pPrivateKey, pSawPrivateKey, pResult>>
    /\ UNCHANGED nonParseVars

\* if strings.EqualFold(line, "[peer]"): the peer is appended and a new
\* Peer begun.
ParsePeerHeader ==
    /\ ReadLine(Line("[peer]", "", ""))
    /\ pPeers' = MaybeAddPeer(pPeers, pPeer)
    /\ pPeer' = NewPeer
    /\ pState' = "inPeerSection"
    /\ UNCHANGED <<pPc, pPrivateKey, pSawPrivateKey, pResult>>
    /\ UNCHANGED nonParseVars

\* A line without an equals sign (in a section, or outside of one).
ParseTextLine ==
    /\ ReadLine(Line("text", "", ""))
    /\ IF pState = "notInASection"
       THEN ParseFail("Line must occur in a section")
       ELSE ParseFail("Config key is missing an equals separator")
    /\ UNCHANGED <<pState, pPeers, pPeer, pPrivateKey, pSawPrivateKey>>
    /\ UNCHANGED nonParseVars

\* A "key = val" line: outside of a section an error, in the interface
\* section privatekey sets the key, in a peer section publickey does.
ParseKeyLine ==
    /\ \E l \in {k \in Lines : k.t = "kv"} :
         /\ ReadLine(l)
         /\ CASE pState = "notInASection" ->
                   /\ ParseFail("Line must occur in a section")
                   /\ UNCHANGED <<pPeer, pPrivateKey, pSawPrivateKey>>
              [] pState = "inInterfaceSection" /\ l.key = "privatekey" ->
                   IF ParseKeyBase64(l.val).err # "nil"
                   THEN /\ ParseFail(ParseKeyBase64(l.val).err)
                        /\ UNCHANGED <<pPeer, pPrivateKey, pSawPrivateKey>>
                   ELSE /\ pPrivateKey' = ParseKeyBase64(l.val).key
                        /\ pSawPrivateKey' = TRUE
                        /\ UNCHANGED <<pPc, pResult, pPeer>>
              [] pState = "inInterfaceSection" /\ l.key # "privatekey" ->
                   /\ ParseFail("Invalid key for [Interface] section")
                   /\ UNCHANGED <<pPeer, pPrivateKey, pSawPrivateKey>>
              [] pState = "inPeerSection" /\ l.key = "publickey" ->
                   IF ParseKeyBase64(l.val).err # "nil"
                   THEN /\ ParseFail(ParseKeyBase64(l.val).err)
                        /\ UNCHANGED <<pPeer, pPrivateKey, pSawPrivateKey>>
                   ELSE /\ pPeer' = [pPeer EXCEPT !.publicKey =
                                        ParseKeyBase64(l.val).key]
                        /\ UNCHANGED <<pPc, pResult, pPrivateKey,
                                       pSawPrivateKey>>
              [] pState = "inPeerSection" /\ l.key # "publickey" ->
                   /\ ParseFail("Invalid key for [Peer] section")
                   /\ UNCHANGED <<pPeer, pPrivateKey, pSawPrivateKey>>
    /\ UNCHANGED <<pState, pPeers>>
    /\ UNCHANGED nonParseVars

\* Mutant: the peers' public keys are not checked.
FinalCheckPrivateKeyOnly(saw, peers) ==
    IF ~saw THEN "An interface must have a private key" ELSE "conf"

\* if !sawPrivateKey { return nil, ... }; for _, p := range conf.Peers
\* { if p.PublicKey.IsZero() { return nil, ... } }; return &conf, nil
FinalCheck(saw, peers) ==
    IF ~saw THEN "An interface must have a private key"
    ELSE IF \E i \in 1..Len(peers) : peers[i].publicKey = ZeroKey
         THEN "All peers must have public keys"
         ELSE "conf"

\* After the last line: the peer is appended, then the private key and the
\* peers' public keys are checked and &conf is returned.
ParseEnd ==
    /\ pPc = "Loop"
    /\ pPeers' = MaybeAddPeer(pPeers, pPeer)
    /\ pPc' = "Returned"
    /\ pResult' = FinalCheck(pSawPrivateKey, pPeers')
    /\ UNCHANGED <<pLines, pState, pPeer, pPrivateKey, pSawPrivateKey>>
    /\ UNCHANGED nonParseVars

NextParse ==
    \/ ParseEmptyLine
    \/ ParseInterfaceHeader
    \/ ParsePeerHeader
    \/ ParseTextLine
    \/ ParseKeyLine
    \/ ParseEnd

(***************************************************************************)
(*                       Properties of FromWgQuick                         *)
(***************************************************************************)

\* The positions of the [Peer] headers of the text, in order.
PeerHeaders == SelectSeq([i \in 1..Len(pLines) |-> i],
                         LAMBDA i : pLines[i].t = "[peer]")

\* The public key declared in the k-th [Peer] section: the last PublicKey
\* line between the k-th [Peer] header and the next one.
RECURSIVE LastPublicKey(_, _)
LastPublicKey(from, to) ==
    IF to < from THEN ZeroKey
    ELSE IF pLines[to].t = "kv" /\ pLines[to].key = "publickey"
         THEN pLines[to].val
         ELSE LastPublicKey(from, to - 1)

SectionKey(k) ==
    LastPublicKey(PeerHeaders[k] + 1,
                  IF k < Len(PeerHeaders) THEN PeerHeaders[k + 1] - 1
                  ELSE Len(pLines))

\* C10: a text that parses successfully yields exactly one Peer per [Peer]
\* header, in source order, also when [Interface] headers are repeated
\* between or after [Peer] sections.
C10_OnePeerPerHeader ==
    pResult = "conf" =>
      /\ Len(pPeers) = Len(PeerHeaders)
      /\ \A k \in 1..Len(PeerHeaders) : pPeers[k].publicKey = SectionKey(k)

\* The section line i of the text is in: the kind of the last header
\* before it, "" before the first header.
RECURSIVE SectionOf(_)
SectionOf(i) ==
    IF i <= 1 THEN ""
    ELSE IF pLines[i - 1].t \in {"[interface]", "[peer]"} THEN pLines[i - 1].t
         ELSE SectionOf(i - 1)

\* Line i declares key in a section of kind sec.
Declares(i, key, sec) ==
    /\ pLines[i].t = "kv"
    /\ pLines[i].key = key
    /\ SectionOf(i) = sec

\* The end of the section that header h begins: the next header, or the end.
RECURSIVE SectionEnd(_)
SectionEnd(i) ==
    IF i > Len(pLines) \/ pLines[i].t \in {"[interface]", "[peer]"} THEN i
    ELSE SectionEnd(i + 1)

\* No [Interface] section of the text declares a PrivateKey.
NoPrivateKeyDeclared ==
    ~\E i \in 1..Len(pLines) : Declares(i, "privatekey", "[interface]")

\* Some [Peer] section of the text declares no PublicKey.
SomePeerWithoutPublicKey ==
    \E h \in 1..Len(pLines) :
      /\ pLines[h].t = "[peer]"
      /\ ~\E i \in (h + 1)..(SectionEnd(h + 1) - 1) :
            pLines[i].t = "kv" /\ pLines[i].key = "publickey"

\* C11: for every text in which no [Interface] section declares a
\* PrivateKey, or in which some [Peer] section declares no PublicKey,
\* FromWgQuick returns a parse error and no Config.
C11_MissingKeyIsParseError ==
    (pPc = "Returned" /\ (NoPrivateKeyDeclared \/ SomePeerWithoutPublicKey))
    => pResult \notin {"conf", "none"}

\* A whole text with a private key and a [Peer] section without a public
\* key was rejected by the final check.
C11_Witness ==
    /\ pPc = "Returned"
    /\ ~NoPrivateKeyDeclared
    /\ SomePeerWithoutPublicKey
    /\ pResult = "All peers must have public keys"

\* C33: a Config that FromWgQuick returns has a non-zero private key and
\* every one of its peers has a non-zero public key.
C33_ReturnedConfigHasKeys ==
    pResult = "conf" =>
      /\ pPrivateKey # ZeroKey
      /\ \A i \in 1..Len(pPeers) : pPeers[i].publicKey # ZeroKey

(***************************************************************************)
(*                        parseEndpoint / parsePort                        *)
(***************************************************************************)

\* if m < 0 || m > 65535
MaxPort == 65535

\* Strings are sequences of characters.
\* strings.Index(s, c) and strings.LastIndexByte(s, c), counted from 1; 0
\* when c does not occur.
Index(s, c) ==
    IF \E i \in 1..Len(s) : s[i] = c
    THEN CHOOSE i \in 1..Len(s) : s[i] = c /\ \A j \in 1..(i - 1) : s[j] # c
    ELSE 0
LastIndexByte(s, c) ==
    IF \E i \in 1..Len(s) : s[i] = c
    THEN CHOOSE i \in 1..Len(s) : s[i] = c /\ \A j \in (i + 1)..Len(s) : s[j] # c
    ELSE 0
\* strings.Contains(s, c)
Contains(s, c) == \E i \in 1..Len(s) : s[i] = c
\* strings.HasPrefix(s, c) for a one-character prefix
HasPrefix(s, c) == Len(s) > 0 /\ s[1] = c

DigitVal ==
    [c \in {"0", "1", "2", "3", "4", "5", "6", "7", "8", "9"} |->
       CASE c = "0" -> 0 [] c = "1" -> 1 [] c = "2" -> 2 [] c = "3" -> 3
         [] c = "4" -> 4 [] c = "5" -> 5 [] c = "6" -> 6 [] c = "7" -> 7
         [] c = "8" -> 8 [] c = "9" -> 9]

\* The value of a digit string, read left to right. Values above
\* MaxPort * 10 stay there: strconv.Atoi either yields the large value or
\* a range error, and parsePort rejects both.
RECURSIVE DigitsValue(_, _)
DigitsValue(ds, acc) ==
    IF ds = << >> THEN acc
    ELSE DigitsValue(Tail(ds), Min(acc * 10 + DigitVal[Head(ds)], MaxPort * 10))

\* strconv.Atoi(s): an optional sign followed by one or more decimal digits.
Atoi(s) ==
    LET signed == Len(s) > 0 /\ s[1] \in {"+", "-"}
        ds == IF signed THEN Tail(s) ELSE s
    IN  IF ds = << >> \/ \E i \in 1..Len(ds) : ds[i] \notin DOMAIN DigitVal
        THEN [err |-> "strconv.Atoi: invalid syntax", val |-> 0]
        ELSE [err |-> "nil",
              val |-> IF signed /\ s[1] = "-" THEN 0 - DigitsValue(ds, 0)
                      ELSE DigitsValue(ds, 0)]

\* func parsePort(s string) (uint16, error)
ParsePort(s) ==
    LET m == Atoi(s)
    IN  IF m.err # "nil" THEN [err |-> m.err, port |-> 0]
        ELSE IF m.val < 0 \/ m.val > MaxPort
             THEN [err |-> "Invalid port", port |-> 0]
             ELSE [err |-> "nil", port |-> m.val]

\* Mutant: an unbracketed host may contain colons.
HostHasColonNever(host) == FALSE

\* strings.Contains(host, ":") of the unbracketed branch
HostHasColon(host) == Contains(host, ":")

\* return nil, &ParseError{...}
EndpointError(e) == [err |-> e, host |-> << >>, port |-> 0]

\* The end of parseEndpoint, common to both branches: the host must not be
\* empty and the port must parse.
EndpointOf(host, portStr) ==
    IF Len(host) = 0 THEN EndpointError("Invalid endpoint host")
    ELSE LET p == ParsePort(portStr)
         IN  IF p.err # "nil" THEN EndpointError(p.err)
             ELSE [err |-> "nil", host |-> host, port |-> p.port]

\* func parseEndpoint(s string) (*Endpoint, error)
ParseEndpoint(s) ==
    IF HasPrefix(s, "[")
    THEN LET endIndex == Index(s, "]")
             remainder == SubSeq(s, endIndex + 1, Len(s))
         IN  IF endIndex = 0
             THEN EndpointError("Missing closing bracket in endpoint")
             ELSE IF ~HasPrefix(remainder, ":")
                  THEN EndpointError("Missing port separator after IPv6 address")
                  ELSE EndpointOf(SubSeq(s, 2, endIndex - 1), Tail(remainder))
    ELSE LET i == LastIndexByte(s, ":")
         IN  IF i = 0 THEN EndpointError("Missing port from endpoint")
             ELSE IF HostHasColon(SubSeq(s, 1, i - 1))
                  THEN EndpointError("IPv6 addresses must be enclosed in brackets")
                  ELSE EndpointOf(SubSeq(s, 1, i - 1), SubSeq(s, i + 1, Len(s)))

\* The endpoint values tried: an optional opening bracket, a host, an
\* optional closing bracket, an optional colon and a port.
EndpointHosts ==
    { << >>, <<"h">>, <<"a", ":", "b">>, <<"a", ":", ":", "1">>, <<"h", "]">> }
EndpointPorts ==
    { << >>, <<"0">>, <<"5", "1", "8", "2", "0">>, <<"6", "5", "5", "3", "5">>,
      <<"6", "5", "5", "3", "6">>, <<"-", "1">>, <<"x">>,
      <<"9", "9", "9", "9", "9", "9", "9">> }
EndpointInputs ==
    { pre \o host \o close \o sep \o port :
        pre \in {<< >>, <<"[">>}, host \in EndpointHosts,
        close \in {<< >>, <<"]">>}, sep \in {<< >>, <<":">>},
        port \in EndpointPorts }

InitEndpoint ==
    /\ enPc = "Call"
    /\ enS \in EndpointInputs
    /\ enRes = EndpointError("none")

\* No endpoint is being parsed (the state of the other specifications).
EndpointOff ==
    /\ enPc = "Off"
    /\ enS = << >>
    /\ enRes = EndpointError("none")

\* parseEndpoint(s) runs and returns.
ParseEndpointCall ==
    /\ enPc = "Call"
    /\ enRes' = ParseEndpoint(enS)
    /\ enPc' = "Returned"
    /\ UNCHANGED enS
    /\ UNCHANGED nonEndpointVars

NextEndpoint == ParseEndpointCall

(***************************************************************************)
(*                      Properties of parseEndpoint                        *)
(***************************************************************************)

\* p is the text of a port in 0..65535.
IsPort(p) == Atoi(p).err = "nil" /\ Atoi(p).val \in 0..MaxPort
\* p is the text of a number outside 0..65535.
IsNumberOutOfRange(p) == Atoi(p).err = "nil" /\ Atoi(p).val \notin 0..MaxPort

\* C12: parseEndpoint accepts host:port for a host without colon and
\* [host]:port for a bracketed host, returning exactly that host and port;
\* it rejects an unbracketed value whose host part contains a colon, a value
\* with an empty host, and a port outside 0..65535.
C12_EndpointForms ==
    enPc = "Returned" =>
      LET n == Len(enS)
          last == LastIndexByte(enS, ":")
      IN
      \* host:port, host without colon (and not opening a bracket)
      /\ \A i \in 2..n :
           LET h == SubSeq(enS, 1, i - 1)
               p == SubSeq(enS, i + 1, n)
           IN  (enS[i] = ":" /\ ~Contains(h, ":") /\ h[1] # "[" /\ IsPort(p))
               => enRes = [err |-> "nil", host |-> h, port |-> Atoi(p).val]
      \* [host]:port
      /\ \A i \in 3..(n - 1) :
           LET h == SubSeq(enS, 2, i - 1)
               p == SubSeq(enS, i + 2, n)
           IN  (/\ enS[1] = "[" /\ enS[i] = "]" /\ enS[i + 1] = ":"
                /\ ~Contains(h, "]") /\ IsPort(p))
               => enRes = [err |-> "nil", host |-> h, port |-> Atoi(p).val]
      \* unbracketed, host part with a colon
      /\ (n > 0 /\ enS[1] # "[" /\ last > 0
            /\ Contains(SubSeq(enS, 1, last - 1), ":"))
         => enRes.err # "nil"
      \* empty host
      /\ (last = 1 \/ (n >= 2 /\ enS[1] = "[" /\ enS[2] = "]"))
         => enRes.err # "nil"
      \* port out of range
      /\ (last > 0 /\ IsNumberOutOfRange(SubSeq(enS, last + 1, n)))
         => enRes.err # "nil"

\* [a:b]:65535 was parsed to host a:b, port 65535.
C12_Witness ==
    /\ enPc = "Returned"
    /\ enS = <<"[", "a", ":", "b", "]", ":", "6", "5", "5", "3", "5">>
    /\ enRes = [err |-> "nil", host |-> <<"a", ":", "b">>, port |-> MaxPort]

(***************************************************************************)
(*            splitList and the list-valued keys of FromWgQuick            *)
(***************************************************************************)

\* Bound on the length of a list value.
MaxListLen == 5

\* The characters of a list value: part of an address, comma, space.
ListChars == {"a", ",", " "}
\* The keys whose value is a list.
ListKeys == {"address", "dns", "allowedips"}

\* All sequences over S of length at most n.
SeqsUpTo(S, n) == UNION {[1..k -> S] : k \in 0..n}

\* strings.Split(s, ","), reading s from position i: cur is the piece
\* being read, acc the pieces before it.
RECURSIVE SplitFrom(_, _, _, _)
SplitFrom(s, i, cur, acc) ==
    IF i > Len(s) THEN Append(acc, cur)
    ELSE IF s[i] = "," THEN SplitFrom(s, i + 1, << >>, Append(acc, cur))
         ELSE SplitFrom(s, i + 1, Append(cur, s[i]), acc)
Split(s) == SplitFrom(s, 1, << >>, << >>)

\* Mutant: elements are not trimmed.
TrimSpaceNot(s) == s

\* strings.TrimSpace(s)
RECURSIVE TrimSpace(_)
TrimSpace(s) ==
    IF s = << >> THEN s
    ELSE IF Head(s) = " " THEN TrimSpace(Tail(s))
         ELSE IF s[Len(s)] = " " THEN TrimSpace(SubSeq(s, 1, Len(s) - 1))
              ELSE s

\* The loop of splitList over the pieces from position k on.
RECURSIVE SplitListFrom(_, _, _)
SplitListFrom(pieces, k, out) ==
    IF k > Len(pieces) THEN [err |-> "nil", out |-> out]
    ELSE LET trim == TrimSpace(pieces[k])
         IN  IF Len(trim) = 0
             THEN [err |-> "Two commas in a row", out |-> << >>]
             ELSE SplitListFrom(pieces, k + 1, Append(out, trim))

\* func splitList(s string) ([]string, error)
SplitList(s) == SplitListFrom(Split(s), 1, << >>)

\* netip.ParsePrefix / netip.ParseAddr accept no text with a space in it;
\* a piece of "a"s stands for a well-formed address.
IsAddress(x) == ~\E i \in 1..Len(x) : x[i] = " "

InitList ==
    /\ lsPc = "Split"
    /\ lsKey \in ListKeys
    /\ lsVal \in SeqsUpTo(ListChars, MaxListLen) \ {<< >>}
    /\ lsOut = [err |-> "none", out |-> << >>]
    /\ lsAdded = << >>
    /\ lsResult = "none"

\* No list line is being parsed (the state of the other specifications).
ListOff ==
    /\ lsPc = "Off"
    /\ lsKey = "address"
    /\ lsVal = << >>
    /\ lsOut = [err |-> "none", out |-> << >>]
    /\ lsAdded = << >>
    /\ lsResult = "none"

\* addresses, err := splitList(val)
SplitListCall ==
    /\ lsPc = "Split"
    /\ lsOut' = SplitList(lsVal)
    /\ lsPc' = "Use"
    /\ UNCHANGED <<lsKey, lsVal, lsAdded, lsResult>>
    /\ UNCHANGED nonListVars

\* if err != nil { return nil, err }
ListLineFails ==
    /\ lsPc = "Use"
    /\ lsOut.err # "nil"
    /\ lsResult' = lsOut.err
    /\ lsPc' = "Done"
    /\ UNCHANGED <<lsKey, lsVal, lsOut, lsAdded>>
    /\ UNCHANGED nonListVars

\* for _, address := range addresses: Address and AllowedIPs elements go
\* through parseIPCidr, whose error is returned; DNS elements that are no
\* address are kept as search domains.
ListLineAppends ==
    /\ lsPc = "Use"
    /\ lsOut.err = "nil"
    /\ IF lsKey # "dns" /\ \E k \in 1..Len(lsOut.out) : ~IsAddress(lsOut.out[k])
       THEN /\ lsResult' = "Invalid IP address"
            /\ lsAdded' =
                 SubSeq(lsOut.out, 1,
                        (CHOOSE k \in 1..Len(lsOut.out) :
                           /\ ~IsAddress(lsOut.out[k])
                           /\ \A j \in 1..(k - 1) : IsAddress(lsOut.out[j])) - 1)
       ELSE /\ lsResult' = "continue"
            /\ lsAdded' = lsOut.out
    /\ lsPc' = "Done"
    /\ UNCHANGED <<lsKey, lsVal, lsOut>>
    /\ UNCHANGED nonListVars

NextList == SplitListCall \/ ListLineFails \/ ListLineAppends

(***************************************************************************)
(*                        Properties of splitList                          *)
(***************************************************************************)

\* The positions that bound the comma-separated elements of lsVal: 0, the
\* commas, and the position after the end.
ListCuts == {0, Len(lsVal) + 1} \cup {i \in 1..Len(lsVal) : lsVal[i] = ","}
\* The k-th cut, in increasing order.
Cut(k) == CHOOSE c \in ListCuts : Cardinality({d \in ListCuts : d < c}) = k - 1
\* The k-th element of lsVal, untrimmed.
Element(k) == SubSeq(lsVal, Cut(k) + 1, Cut(k + 1) - 1)
NumElements == Cardinality(ListCuts) - 1
\* x consists of spaces only.
Blank(x) == \A i \in 1..Len(x) : x[i] = " "
\* t is x without its leading and trailing spaces.
IsTrimOf(t, x) ==
    /\ t # << >> /\ t[1] # " " /\ t[Len(t)] # " "
    /\ \E i \in 1..Len(x) :
         /\ SubSeq(x, i, i + Len(t) - 1) = t
         /\ Blank(SubSeq(x, 1, i - 1))
         /\ Blank(SubSeq(x, i + Len(t), Len(x)))

\* C13: splitList fails with "Two commas in a row" whenever an element is
\* empty after trimming, and otherwise returns the trimmed elements in
\* source order; a failing Address, DNS or AllowedIPs list makes the whole
\* parse fail.
C13_SplitList ==
    lsPc \in {"Use", "Done"} =>
      /\ IF \E k \in 1..NumElements : Blank(Element(k))
         THEN lsOut = [err |-> "Two commas in a row", out |-> << >>]
         ELSE /\ lsOut.err = "nil"
              /\ Len(lsOut.out) = NumElements
              /\ \A k \in 1..NumElements : IsTrimOf(lsOut.out[k], Element(k))
      /\ (lsPc = "Done" /\ lsOut.err # "nil")
         => lsResult = "Two commas in a row" /\ lsAdded = << >>

\* An AllowedIPs value with an element of spaces only between two commas
\* made the parse fail.
C13_Witness ==
    /\ lsPc = "Done"
    /\ lsKey = "allowedips"
    /\ lsVal = <<"a", ",", " ", ",", "a">>
    /\ lsResult = "Two commas in a row"

(***************************************************************************)
(*                        Config.ResolveEndpoints                          *)
(***************************************************************************)

\* Bound on the number of peers of the Config.
MaxResolvePeers == 3

\* Endpoint hosts: "" is the empty endpoint.
EndpointHostNames == {"", "vpn.example.com"}
\* What resolveHostname can return.
ResolveOutcomes ==
    { [ip |-> "192.0.2.1", err |-> "nil"],
      [ip |-> "", err |-> "WSAHOST_NOT_FOUND"],
      [ip |-> "", err |-> "WSAEINVAL"] }
NoOutcome == [ip |-> "", err |-> "none"]

\* Mutant: a later error replaces the recorded one.
RecordLastErr(firstErr, e) == e

\* if firstErr == nil { firstErr = err }
RecordErr(firstErr, e) == IF firstErr = "nil" THEN e ELSE firstErr

InitResolve ==
    /\ rOrig \in SeqsUpTo(EndpointHostNames, MaxResolvePeers)
    /\ rHosts = rOrig
    /\ rPc = IF Len(rOrig) = 0 THEN "Wait" ELSE "Loop"
    /\ rI = 1
    /\ rTask = [i \in 1..Len(rOrig) |-> "none"]
    /\ rOutcome = [i \in 1..Len(rOrig) |-> NoOutcome]
    /\ rWg = 0
    /\ rMu = 0
    /\ rFirstErr = "nil"
    /\ rRecorded = << >>
    /\ rWrites = {}
    /\ rRet = "none"

\* No ResolveEndpoints call (the state of the other specifications).
ResolveOff ==
    /\ rOrig = << >>
    /\ rHosts = << >>
    /\ rPc = "Off"
    /\ rI = 1
    /\ rTask = << >>
    /\ rOutcome = << >>
    /\ rWg = 0
    /\ rMu = 0
    /\ rFirstErr = "nil"
    /\ rRecorded = << >>
    /\ rWrites = {}
    /\ rRet = "none"

\* for i := range config.Peers: the next index, or the end of the loop.
ResolveLoopNext ==
    /\ rI' = rI + 1
    /\ rPc' = IF rI + 1 > Len(rHosts) THEN "Wait" ELSE "Loop"

\* if config.Peers[i].Endpoint.IsEmpty() { continue }
ResolveSkipEmpty ==
    /\ rPc = "Loop"
    /\ rHosts[rI] = ""
    /\ ResolveLoopNext
    /\ UNCHANGED <<rOrig, rHosts, rTask, rOutcome, rWg, rMu, rFirstErr,
                   rRecorded, rWrites, rRet>>
    /\ UNCHANGED nonResolveVars

\* wg.Add(1); go func(i int) {...}(i)
ResolveLaunch ==
    /\ rPc = "Loop"
    /\ rHosts[rI] # ""
    /\ rWg' = rWg + 1
    /\ rTask' = [rTask EXCEPT ![rI] = "resolving"]
    /\ ResolveLoopNext
    /\ UNCHANGED <<rOrig, rHosts, rOutcome, rMu, rFirstErr, rRecorded,
                   rWrites, rRet>>
    /\ UNCHANGED nonResolveVars

\* resolved, err := resolveHostname(config.Peers[i].Endpoint.Host)
ResolveTaskResolves ==
    /\ \E i \in 1..Len(rHosts), o \in ResolveOutcomes :
         /\ rTask[i] = "resolving"
         /\ rOutcome' = [rOutcome EXCEPT ![i] = o]
         /\ rTask' = [rTask EXCEPT ![i] = "resolved"]
    /\ UNCHANGED <<rPc, rI, rOrig, rHosts, rWg, rMu, rFirstErr, rRecorded,
                   rWrites, rRet>>
    /\ UNCHANGED nonResolveVars

\* mu.Lock()
ResolveTaskLocks ==
    /\ rMu = 0
    /\ \E i \in 1..Len(rHosts) :
         /\ rTask[i] = "resolved"
         /\ rMu' = i
         /\ rTask' = [rTask EXCEPT ![i] = "locked"]
         /\ rRecorded' = IF rOutcome[i].err # "nil" THEN Append(rRecorded, i)
                         ELSE rRecorded
    /\ UNCHANGED <<rPc, rI, rOrig, rHosts, rOutcome, rWg, rFirstErr, rWrites,
                   rRet>>
    /\ UNCHANGED nonResolveVars

\* Under mu: the error is recorded, or the host is replaced; then
\* mu.Unlock() and the deferred wg.Done().
ResolveTaskFinishes ==
    /\ \E i \in 1..Len(rHosts) :
         /\ rTask[i] = "locked"
         /\ rMu = i
         /\ IF rOutcome[i].err # "nil"
            THEN /\ rFirstErr' = RecordErr(rFirstErr, rOutcome[i].err)
                 /\ UNCHANGED <<rHosts, rWrites>>
            ELSE /\ rHosts' = [rHosts EXCEPT ![i] = rOutcome[i].ip]
                 /\ rWrites' = rWrites \cup {i}
                 /\ UNCHANGED rFirstErr
         /\ rTask' = [rTask EXCEPT ![i] = "done"]
    /\ rMu' = 0
    /\ rWg' = rWg - 1
    /\ UNCHANGED <<rPc, rI, rOrig, rOutcome, rRecorded, rRet>>
    /\ UNCHANGED nonResolveVars

\* Mutant: the return does not wait for the tasks.
ResolveReturnNoWait ==
    /\ rPc = "Wait"
    /\ rRet' = rFirstErr
    /\ rPc' = "Returned"
    /\ UNCHANGED <<rI, rOrig, rHosts, rTask, rOutcome, rWg, rMu, rFirstErr,
                   rRecorded, rWrites>>
    /\ UNCHANGED nonResolveVars

\* wg.Wait(); return firstErr
ResolveReturn ==
    /\ rPc = "Wait"
    /\ rWg = 0
    /\ rRet' = rFirstErr
    /\ rPc' = "Returned"
    /\ UNCHANGED <<rI, rOrig, rHosts, rTask, rOutcome, rWg, rMu, rFirstErr,
                   rRecorded, rWrites>>
    /\ UNCHANGED nonResolveVars

NextResolve ==
    \/ ResolveSkipEmpty
    \/ ResolveLaunch
    \/ ResolveTaskResolves
    \/ ResolveTaskLocks
    \/ ResolveTaskFinishes
    \/ ResolveReturn

(***************************************************************************)
(*                     Properties of ResolveEndpoints                      *)
(***************************************************************************)

\* Peer i has a non-empty endpoint and its resolution succeeded / failed.
ResolvedOk(i) == rOrig[i] # "" /\ rOutcome[i].err = "nil"
ResolveFailed(i) == rOrig[i] # "" /\ rOutcome[i].err \notin {"nil", "none"}

\* C14: ResolveEndpoints returns nil iff every peer with a non-empty
\* endpoint resolved, otherwise the error of the failing peer task that
\* recorded its error first; every peer that resolved has its host replaced
\* by the resolved literal, failing peers and peers with an empty endpoint
\* keep their host and are not written.
C14_ResolveEndpoints ==
    rPc = "Returned" =>
      /\ \A i \in 1..Len(rOrig) : rOrig[i] # "" => rTask[i] = "done"
      /\ (rRet = "nil") <=> (\A i \in 1..Len(rOrig) : rOrig[i] # "" => ResolvedOk(i))
      /\ rRet # "nil" => rRet = rOutcome[rRecorded[1]].err
      /\ \A i \in 1..Len(rOrig) :
           IF ResolvedOk(i)
           THEN rHosts[i] = rOutcome[i].ip /\ i \in rWrites
           ELSE rHosts[i] = rOrig[i] /\ i \notin rWrites

\* Two peers failed with different errors, and the error returned is the
\* one of the second peer, which took the mutex first.
C14_Witness ==
    /\ rPc = "Returned"
    /\ Len(rOrig) = 2
    /\ rRecorded = <<2, 1>>
    /\ rOutcome[1].err # rOutcome[2].err

\* Every task that was started has finished.
AllTasksFinished ==
    /\ \A i \in 1..Len(rOrig) : rTask[i] \in {"none", "done"}
    /\ rWg = 0
    /\ rMu = 0

\* C29: ResolveEndpoints returns only when every task it started has
\* finished; a peer's host is written only by that peer's task while it
\* holds mu, one peer at a time; after the return the hosts of the Config
\* do not change any more.
C29_NoWriteAfterReturn ==
    /\ [](rPc = "Returned" => AllTasksFinished)
    /\ [][\A i \in 1..Len(rOrig) :
            rHosts'[i] # rHosts[i] =>
              /\ rTask[i] = "locked" /\ rMu = i
              /\ \A j \in 1..Len(rOrig) \ {i} : rHosts'[j] = rHosts[j]]_vars
    /\ [][(rPc = "Returned") => (rHosts' = rHosts /\ rPc' = rPc)]_vars

\* C29 witness: three peers, all resolved and written, and the call has
\* returned.
C29_Witness ==
    /\ rPc = "Returned"
    /\ rWrites = {1, 2, 3}
    /\ \A i \in 1..3 : rHosts[i] = rOutcome[i].ip /\ rHosts[i] # rOrig[i]
    /\ rRet = rOutcome[2].err

(***************************************************************************)
(*                        pitfallDnsCacheDisabled                          *)
(***************************************************************************)

\* Bound on the clock ticks of one run.
MaxPfTicks == 1
\* The nested calls are counted up to this number.
MaxPfDepth == 3
\* dnsCacheDuration = 5 * time.Minute, in seconds.
PfCacheDuration == 300
\* The zero time.Time of the package variable dnsCacheTime.
ZeroTime == -1
\* The clock advances in steps of this many seconds.
PfTickSteps == {301}

\* time.Since(dnsCacheTime) > dnsCacheDuration; the zero time lies further
\* back than any duration.
PfExpired == pfTime = ZeroTime \/ pfNow - pfTime > PfCacheDuration

InitPitfall ==
    /\ pfPc = "Entry"
    /\ pfOnce = FALSE
    /\ pfTime = ZeroTime
    /\ pfDisabled = FALSE
    /\ pfStartDisabled \in BOOLEAN
    /\ pfDepth = 0
    /\ pfFailedAt = "none"
    /\ pfWarned = FALSE
    /\ pfNow = 0
    /\ pfTicks = 0

\* No static diagnostics run (the state of the other specifications).
PitfallOff ==
    /\ pfPc = "Off"
    /\ pfOnce = FALSE
    /\ pfTime = ZeroTime
    /\ pfDisabled = FALSE
    /\ pfStartDisabled = FALSE
    /\ pfDepth = 0
    /\ pfFailedAt = "none"
    /\ pfWarned = FALSE
    /\ pfNow = 0
    /\ pfTicks = 0

\* The function given to dnsCacheCheckOnce.Do returns early: the Once is
\* done and the call goes on to the age test.
PitfallOnceFails(call) ==
    /\ pfFailedAt' = call
    /\ pfOnce' = TRUE
    /\ pfPc' = "Check"
    /\ UNCHANGED <<pfTime, pfDisabled>>

\* dnsCacheCheckOnce.Do(...): the function runs unless the Once is done.
PitfallEnter ==
    /\ pfPc = "Entry"
    /\ pfPc' = IF pfOnce THEN "Check" ELSE "Connect"
    /\ pfFailedAt' = "none"
    /\ UNCHANGED <<pfOnce, pfTime, pfDisabled, pfStartDisabled, pfDepth,
                   pfWarned, pfNow, pfTicks>>
    /\ UNCHANGED nonPitfallVars

\* scm, err := mgr.Connect(); if err != nil { return }
PitfallConnect ==
    /\ pfPc = "Connect"
    /\ \/ pfPc' = "OpenService" /\ UNCHANGED <<pfOnce, pfTime, pfDisabled, pfFailedAt>>
       \/ PitfallOnceFails("Connect")
    /\ UNCHANGED <<pfStartDisabled, pfDepth, pfWarned, pfNow, pfTicks>>
    /\ UNCHANGED nonPitfallVars

\* svc.Handle, err = windows.OpenService(...); if err != nil { return }
PitfallOpenService ==
    /\ pfPc = "OpenService"
    /\ \/ pfPc' = "Config" /\ UNCHANGED <<pfOnce, pfTime, pfDisabled, pfFailedAt>>
       \/ PitfallOnceFails("OpenService")
    /\ UNCHANGED <<pfStartDisabled, pfDepth, pfWarned, pfNow, pfTicks>>
    /\ UNCHANGED nonPitfallVars

\* cfg, err := svc.Config(); if err != nil { return }
\* dnsCacheDisabled = cfg.StartType == mgr.StartDisabled
\* dnsCacheTime = time.Now()
PitfallConfig ==
    /\ pfPc = "Config"
    /\ \/ /\ pfDisabled' = pfStartDisabled
          /\ pfTime' = pfNow
          /\ pfOnce' = TRUE
          /\ pfPc' = "Check"
          /\ UNCHANGED pfFailedAt
       \/ PitfallOnceFails("Config")
    /\ UNCHANGED <<pfStartDisabled, pfDepth, pfWarned, pfNow, pfTicks>>
    /\ UNCHANGED nonPitfallVars

\* if time.Since(dnsCacheTime) > dnsCacheDuration { dnsCacheCheckOnce =
\* sync.Once{}; pitfallDnsCacheDisabled(); return }
\* if dnsCacheDisabled { log.Printf(...) }
PitfallCheck ==
    /\ pfPc = "Check"
    /\ IF PfExpired
       THEN /\ pfOnce' = FALSE
            /\ pfDepth' = Min(pfDepth + 1, MaxPfDepth)
            /\ pfPc' = "Entry"
            /\ UNCHANGED pfWarned
       ELSE /\ pfWarned' = pfDisabled
            /\ pfPc' = "Unwind"
            /\ UNCHANGED <<pfOnce, pfDepth>>
    /\ UNCHANGED <<pfTime, pfDisabled, pfStartDisabled, pfFailedAt, pfNow, pfTicks>>
    /\ UNCHANGED nonPitfallVars

\* The innermost call has returned: each nested call returns in its turn
\* (the `return` after the recursive call), the outermost to the goroutine.
PitfallUnwind ==
    /\ pfPc = "Unwind"
    /\ IF pfDepth > 0
       THEN pfDepth' = pfDepth - 1 /\ UNCHANGED pfPc
       ELSE pfPc' = "Returned" /\ UNCHANGED pfDepth
    /\ UNCHANGED <<pfOnce, pfTime, pfDisabled, pfStartDisabled, pfFailedAt,
                   pfWarned, pfNow, pfTicks>>
    /\ UNCHANGED nonPitfallVars

\* Time passes.
PitfallTick ==
    /\ pfPc \notin {"Off", "Returned"}
    /\ pfTicks < MaxPfTicks
    /\ pfTicks' = pfTicks + 1
    /\ \E d \in PfTickSteps : pfNow' = pfNow + d
    /\ UNCHANGED <<pfPc, pfOnce, pfTime, pfDisabled, pfStartDisabled, pfDepth,
                   pfFailedAt, pfWarned>>
    /\ UNCHANGED nonPitfallVars

NextPitfall ==
    \/ PitfallEnter \/ PitfallConnect \/ PitfallOpenService \/ PitfallConfig
    \/ PitfallCheck \/ PitfallUnwind \/ PitfallTick

(***************************************************************************)
(*                 Properties of pitfallDnsCacheDisabled                   *)
(***************************************************************************)

\* C26: pitfallDnsCacheDisabled terminates on every path, also when
\* connecting to the service manager or querying the dnscache service
\* fails: the failure is swallowed and the check returns.
C26_PitfallTerminates == <>(pfPc = "Returned")

(***************************************************************************)
(*                    pitfallWeakHostSend (pitfalls.go)                    *)
(***************************************************************************)

\* Addresses are AddrBits bits wide; a prefix is the address and the number
\* of leading bits that count.
AddrBits == 2
\* The longest routing table and the longest list of peers tried.
MaxWeakRoutes == 3
MaxWeakPeers == 2

WRoute(prefix, len, luid, metric) ==
    [prefix |-> prefix, prefixLen |-> len, luid |-> luid, metric |-> metric]
WIface(up, metric, weak) == [up |-> up, metric |-> metric, weak |-> weak]

\* The routes a table is made of: two default routes, one of them the
\* tunnel's, two routes to the upper half of the addresses, one of them the
\* tunnel's, and a host route.
WeakRoutePool ==
    { WRoute(0, 0, 1, 1), WRoute(0, 0, OurLUID, 5), WRoute(2, 1, 2, 1),
      WRoute(2, 1, OurLUID, 0), WRoute(2, 2, 1, 0) }

\* The interfaces 1 and 2 of the host and the tunnel's: operational state,
\* interface metric, and ForwardingEnabled || WeakHostSend.
WeakIfs ==
    1 :> WIface(TRUE, U32Of(5), TRUE) @@ 2 :> WIface(TRUE, U32Of(5), FALSE)
      @@ OurLUID :> WIface(TRUE, U32Of(1), TRUE)
WeakIfTables ==
    { WeakIfs,
      [WeakIfs EXCEPT ![1].up = FALSE],
      [WeakIfs EXCEPT ![2].weak = TRUE],
      [WeakIfs EXCEPT ![1].metric = U32Max] }

\* Endpoint hosts of the peers: literal addresses of either family and a
\* host name.
WeakHosts ==
    { [kind |-> "v4", addr |-> 2], [kind |-> "v4", addr |-> 1],
      [kind |-> "v6", addr |-> 2], [kind |-> "name", addr |-> 0] }

\* r.DestinationPrefix.Prefix().Contains(addr)
PrefixContains(r, addr) ==
    addr \div Pow2_rec[AddrBits - r.prefixLen]
        = r.prefix \div Pow2_rec[AddrBits - r.prefixLen]

\* netip.ParseAddr succeeds and the address is of the scanned family.
LiteralOfFamily(host, family) ==
    \/ host.kind = "v4" /\ family = "AF_INET"
    \/ host.kind = "v6" /\ family = "AF_INET6"

\* The endpoints slice: one endpointRoute per peer with a literal address
\* of the family, in the order of the peers.
RECURSIVE WeakEndpoints(_, _, _)
WeakEndpoints(peers, family, k) ==
    IF k > Len(peers) THEN << >>
    ELSE (IF LiteralOfFamily(peers[k], family)
          THEN << [addr |-> peers[k].addr, name |-> 0,
                   lowestMetric |-> U32Max, highestCIDR |-> 0,
                   weakHostSend |-> FALSE, finalIsOurs |-> FALSE] >>
          ELSE << >>)
         \o WeakEndpoints(peers, family, k + 1)

\* The body of the inner loop for route r and endpoint e: the endpoint
\* afterwards.
WeakVisit(r, e, ifs) ==
    LET metric == U32Add(U32Of(r.metric), ifs[r.luid].metric)
    IN  IF r.prefixLen < e.highestCIDR THEN e
        ELSE IF ~PrefixContains(r, e.addr) THEN e
        ELSE IF ~ifs[r.luid].up THEN e
        ELSE IF r.prefixLen = e.highestCIDR /\ U32Less(e.lowestMetric, metric)
        THEN e
        ELSE [e EXCEPT !.lowestMetric = metric,
                       !.highestCIDR = r.prefixLen,
                       !.finalIsOurs = (r.luid = OurLUID),
                       !.name = r.luid,
                       !.weakHostSend = ifs[r.luid].weak]

\* The keys of problematicInterfaces.
ProblematicInterfaces(ends) ==
    {ends[j].name : j \in {k \in 1..Len(ends) :
                              ends[k].weakHostSend /\ ~ends[k].finalIsOurs}}

\* The orders in which the keys of a map can be ranged over.
MapOrders(S) ==
    {s \in [1..Cardinality(S) -> S] : \A a, b \in DOMAIN s : s[a] = s[b] => a = b}

InitWeak ==
    /\ wPc = "Start"
    /\ wFamily \in {"AF_INET", "AF_INET6"}
    /\ wPeers \in SeqsUpTo(WeakHosts, MaxWeakPeers)
    /\ wRoutes \in SeqsUpTo(WeakRoutePool, MaxWeakRoutes)
    /\ wIfs \in WeakIfTables
    /\ wEnds = << >>
    /\ wI = 1
    /\ wJ = 1
    /\ wFailed = "none"
    /\ wLog = << >>

\* No scan for weak-host-send interfaces runs (the state of the other
\* specifications).
WeakOff ==
    /\ wPc = "Off"
    /\ wFamily = "AF_INET"
    /\ wPeers = << >>
    /\ wRoutes = << >>
    /\ wIfs = WeakIfs
    /\ wEnds = << >>
    /\ wI = 1
    /\ wJ = 1
    /\ wFailed = "none"
    /\ wLog = << >>

\* GetIPForwardTable2 and the loop over conf.Peers.
WeakStart ==
    /\ wPc = "Start"
    /\ \E ok \in BOOLEAN :
         IF ok
         THEN /\ wPc' = "Scan"
              /\ wEnds' = WeakEndpoints(wPeers, wFamily, 1)
              /\ UNCHANGED wFailed
         ELSE /\ wPc' = "Returned"
              /\ wFailed' = "GetIPForwardTable2"
              /\ UNCHANGED wEnds
    /\ UNCHANGED <<wFamily, wPeers, wRoutes, wIfs, wI, wJ, wLog>>
    /\ UNCHANGED nonWeakVars

\* One pass of the inner loop: route wI against endpoint wJ.
WeakScan ==
    /\ wPc = "Scan"
    /\ wI <= Len(wRoutes)
    /\ wJ <= Len(wEnds)
    /\ wEnds' = [wEnds EXCEPT ![wJ] = WeakVisit(wRoutes[wI], @, wIfs)]
    /\ IF wJ < Len(wEnds)
       THEN wJ' = wJ + 1 /\ UNCHANGED wI
       ELSE wJ' = 1 /\ wI' = wI + 1
    /\ UNCHANGED <<wPc, wFamily, wPeers, wRoutes, wIfs, wFailed, wLog>>
    /\ UNCHANGED nonWeakVars

\* The loops are over: the map of problematic interfaces is filled and one
\* line is logged per key.
WeakCollect ==
    /\ wPc = "Scan"
    /\ wI > Len(wRoutes) \/ Len(wEnds) = 0
    /\ wLog' \in MapOrders(ProblematicInterfaces(wEnds))
    /\ wPc' = "Returned"
    /\ UNCHANGED <<wFamily, wPeers, wRoutes, wIfs, wEnds, wI, wJ, wFailed>>
    /\ UNCHANGED nonWeakVars

NextWeak == WeakStart \/ WeakScan \/ WeakCollect

(***************************************************************************)
(*                     Properties of pitfallWeakHostSend                   *)
(***************************************************************************)

\* The peers whose endpoint is a literal address of the scanned family.
LiteralPeers ==
    {k \in 1..Len(wPeers) : LiteralOfFamily(wPeers[k], wFamily)}
\* The routes that match the endpoint of peer k and whose interface is up.
MatchingRoutes(k) ==
    {i \in 1..Len(wRoutes) :
        /\ PrefixContains(wRoutes[i], wPeers[k].addr)
        /\ wIfs[wRoutes[i].luid].up}
WeakEnv == [routes |-> wRoutes, ifs |-> wIfs]
\* The best matching routes: longest prefix, then lowest route metric +
\* interface metric.
BestRoutes(k) ==
    {i \in MatchingRoutes(k) :
        \A j \in MatchingRoutes(k) :
            \/ wRoutes[i].prefixLen > wRoutes[j].prefixLen
            \/ /\ wRoutes[i].prefixLen = wRoutes[j].prefixLen
               /\ NoHigherThan(CombinedMetric(WeakEnv, i),
                               CombinedMetric(WeakEnv, j))}
\* Route i is not on the tunnel's interface and its interface has forwarding
\* or weak-host-send enabled.
LoopingRoute(i) ==
    /\ wRoutes[i].luid # OurLUID
    /\ wIfs[wRoutes[i].luid].weak
WeakScanned == wPc = "Returned" /\ wFailed = "none"

\* C37: a scan that read the routing table warns about an interface only
\* if it owns a best matching route of some literal endpoint of the family,
\* is not the tunnel's and has forwarding or weak-host-send enabled; it
\* warns about such an interface whenever every best route of an endpoint
\* is of that kind; and it warns about no interface twice.
C37_WarnsIffBestRouteLoops ==
    WeakScanned =>
        /\ \A n \in 1..Len(wLog) :
              \E k \in LiteralPeers : \E i \in BestRoutes(k) :
                  LoopingRoute(i) /\ wRoutes[i].luid = wLog[n]
        /\ \A k \in LiteralPeers :
              (BestRoutes(k) # {} /\ \A i \in BestRoutes(k) : LoopingRoute(i))
                  => \E n \in 1..Len(wLog) : \E i \in BestRoutes(k) :
                         wRoutes[i].luid = wLog[n]
        /\ \A a, b \in 1..Len(wLog) : wLog[a] = wLog[b] => a = b

\* The same for the hosts on which no sum of a route metric and an
\* interface metric passes 2^32 - 1.
WarnsIffBestRouteLoopsWithoutWrap ==
    wIfs[1].metric # U32Max => C37_WarnsIffBestRouteLoops

(***************************************************************************)
(*               uiProcess: Wait, Kill, release (uiprocess.go)             *)
(***************************************************************************)

\* The goroutines that hold the *uiProcess: two that call Wait, one that
\* calls Kill and one that calls release, each once; and the goroutine of
\* the runtime that runs the finalizer.
WaitCallers == {"wait1", "wait2"}
UiCallers == WaitCallers \cup {"kill", "release"}
UiThreads == UiCallers \cup {"finalizer"}

InitUi ==
    /\ uPc \in [UiThreads -> {"idle", "absent"}]
    /\ uPc["finalizer"] = "idle"
    /\ uHandle = "handle"
    /\ uLocal = [t \in UiThreads |-> "InvalidHandle"]
    /\ uOpen = TRUE
    /\ uExited = FALSE
    /\ uFinalizer = TRUE
    /\ uCloseCalls = 0
    /\ uStale = {}
    /\ uRet = [t \in UiThreads |-> "none"]

\* No UI process was launched (the state of the other specifications).
UiOff ==
    /\ uPc = [t \in UiThreads |-> "absent"]
    /\ uHandle = "InvalidHandle"
    /\ uLocal = [t \in UiThreads |-> "InvalidHandle"]
    /\ uOpen = FALSE
    /\ uExited = FALSE
    /\ uFinalizer = FALSE
    /\ uCloseCalls = 0
    /\ uStale = {}
    /\ uRet = [t \in UiThreads |-> "none"]

\* A call of the operating system that is given the handle held by t: it
\* is recorded when the handle was closed before.
OsCall(t, op) == IF uOpen THEN uStale ELSE uStale \cup {<<t, op>>}

\* What release leaves to its caller: Wait ignores the result and returns
\* the exit code.
ReleaseResult(t, res) == IF t \in WaitCallers THEN "exit code" ELSE res

\* The *uiProcess is unreachable: every goroutine that held it has returned
\* or is in Kill behind the load of p.handle, the last use of p.
Unreachable ==
    \A t \in UiCallers : uPc[t] \in {"absent", "done", "terminate"}

\* handle := atomic.LoadUintptr(&p.handle) and the test for InvalidHandle,
\* in Wait and in Kill.
UiLoad ==
    \E t \in WaitCallers \cup {"kill"} :
      /\ uPc[t] = "idle"
      /\ uLocal' = [uLocal EXCEPT ![t] = uHandle]
      /\ IF uHandle = "InvalidHandle"
         THEN /\ uPc' = [uPc EXCEPT ![t] = "done"]
              /\ uRet' = [uRet EXCEPT ![t] =
                    IF t = "kill" THEN "nil" ELSE "process handle is closed"]
         ELSE /\ uPc' = [uPc EXCEPT ![t] =
                    IF t = "kill" THEN "terminate" ELSE "wait"]
              /\ UNCHANGED uRet
      /\ UNCHANGED <<uHandle, uOpen, uExited, uFinalizer, uCloseCalls, uStale>>
      /\ UNCHANGED nonUiVars

\* Wait calls windows.WaitForSingleObject(handle, INFINITE).
UiWaitCall ==
    \E t \in WaitCallers :
      /\ uPc[t] = "wait"
      /\ uStale' = OsCall(t, "WaitForSingleObject")
      /\ uPc' = [uPc EXCEPT ![t] = "blocked"]
      /\ UNCHANGED <<uHandle, uLocal, uOpen, uExited, uFinalizer, uCloseCalls,
                     uRet>>
      /\ UNCHANGED nonUiVars

\* WaitForSingleObject returns: WAIT_OBJECT_0 once the process has exited,
\* or a failure; on a handle that was closed the result is not defined.
UiWaitReturns ==
    \E t \in WaitCallers, s \in {"WAIT_OBJECT_0", "WAIT_FAILED"} :
      /\ uPc[t] = "blocked"
      /\ (s = "WAIT_OBJECT_0" /\ uOpen) => uExited
      /\ IF s = "WAIT_OBJECT_0"
         THEN /\ uPc' = [uPc EXCEPT ![t] = "exitcode"]
              /\ UNCHANGED uRet
         ELSE /\ uPc' = [uPc EXCEPT ![t] = "done"]
              /\ uRet' = [uRet EXCEPT ![t] = "error"]
      /\ UNCHANGED <<uHandle, uLocal, uOpen, uExited, uFinalizer, uCloseCalls,
                     uStale>>
      /\ UNCHANGED nonUiVars

\* windows.GetExitCodeProcess(handle, &exitCode), then p.release().
UiExitCode ==
    \E t \in WaitCallers, ok \in BOOLEAN :
      /\ uPc[t] = "exitcode"
      /\ uStale' = OsCall(t, "GetExitCodeProcess")
      /\ IF ok
         THEN /\ uPc' = [uPc EXCEPT ![t] = "swap"]
              /\ UNCHANGED uRet
         ELSE /\ uPc' = [uPc EXCEPT ![t] = "done"]
              /\ uRet' = [uRet EXCEPT ![t] = "error"]
      /\ UNCHANGED <<uHandle, uLocal, uOpen, uExited, uFinalizer, uCloseCalls>>
      /\ UNCHANGED nonUiVars

\* release is entered by t: from Wait, by the goroutine that calls it, or
\* by the finalizer once the object is unreachable.
EntersRelease(t) ==
    \/ uPc[t] = "swap"
    \/ t = "release" /\ uPc[t] = "idle"
    \/ t = "finalizer" /\ uPc[t] = "idle" /\ uFinalizer /\ Unreachable

\* handle := atomic.SwapUintptr(&p.handle, InvalidHandle) and the test for
\* InvalidHandle.
UiSwap ==
    \E t \in UiThreads :
      /\ EntersRelease(t)
      /\ uLocal' = [uLocal EXCEPT ![t] = uHandle]
      /\ uHandle' = "InvalidHandle"
      /\ uFinalizer' = IF t = "finalizer" THEN FALSE ELSE uFinalizer
      /\ IF uHandle = "InvalidHandle"
         THEN /\ uPc' = [uPc EXCEPT ![t] = "done"]
              /\ uRet' = [uRet EXCEPT ![t] = ReleaseResult(t, "nil")]
         ELSE /\ uPc' = [uPc EXCEPT ![t] = "close"]
              /\ UNCHANGED uRet
      /\ UNCHANGED <<uOpen, uExited, uCloseCalls, uStale>>
      /\ UNCHANGED nonUiVars

\* windows.CloseHandle(handle) in release.
UiClose ==
    \E t \in UiThreads, ok \in BOOLEAN :
      /\ uPc[t] = "close"
      /\ uStale' = OsCall(t, "CloseHandle")
      /\ uCloseCalls' = uCloseCalls + 1
      /\ IF ok
         THEN /\ uOpen' = FALSE
              /\ uPc' = [uPc EXCEPT ![t] = "clear"]
              /\ UNCHANGED uRet
         ELSE /\ uPc' = [uPc EXCEPT ![t] = "done"]
              /\ uRet' = [uRet EXCEPT ![t] = ReleaseResult(t, "error")]
              /\ UNCHANGED uOpen
      /\ UNCHANGED <<uHandle, uLocal, uExited, uFinalizer>>
      /\ UNCHANGED nonUiVars

\* runtime.SetFinalizer(p, nil) and the return of release.
UiClear ==
    \E t \in UiThreads :
      /\ uPc[t] = "clear"
      /\ uFinalizer' = FALSE
      /\ uPc' = [uPc EXCEPT ![t] = "done"]
      /\ uRet' = [uRet EXCEPT ![t] = ReleaseResult(t, "nil")]
      /\ UNCHANGED <<uHandle, uLocal, uOpen, uExited, uCloseCalls, uStale>>
      /\ UNCHANGED nonUiVars

\* return windows.TerminateProcess(handle, 1) in Kill.
UiTerminate ==
    \E ok \in BOOLEAN :
      /\ uPc["kill"] = "terminate"
      /\ uStale' = OsCall("kill", "TerminateProcess")
      /\ uExited' = (uExited \/ (ok /\ uOpen))
      /\ uPc' = [uPc EXCEPT !["kill"] = "done"]
      /\ uRet' = [uRet EXCEPT !["kill"] = IF ok THEN "nil" ELSE "error"]
      /\ UNCHANGED <<uHandle, uLocal, uOpen, uFinalizer, uCloseCalls>>
      /\ UNCHANGED nonUiVars

\* The UI process exits by itself.
UiProcessExits ==
    /\ uPc # [t \in UiThreads |-> "absent"]
    /\ ~uExited
    /\ uExited' = TRUE
    /\ UNCHANGED <<uPc, uHandle, uLocal, uOpen, uFinalizer, uCloseCalls,
                   uStale, uRet>>
    /\ UNCHANGED nonUiVars

NextUi ==
    \/ UiLoad \/ UiWaitCall \/ UiWaitReturns \/ UiExitCode \/ UiSwap
    \/ UiClose \/ UiClear \/ UiTerminate \/ UiProcessExits

(***************************************************************************)
(*                         Properties of uiProcess                         *)
(***************************************************************************)

\* Some call of release has returned.
ReleaseReturned ==
    \E t \in UiThreads :
        /\ uPc[t] = "done"
        /\ t \in {"release", "finalizer"} \/ uRet[t] = "exit code"

\* CloseHandle is called at most once.
ClosedAtMostOnce == uCloseCalls <= 1
\* No call of the operating system was given the handle after it had been
\* closed.
NoUseAfterClose == uStale = {}
\* A Wait or Kill that begins after a release has returned ends at once,
\* Wait with the error "process handle is closed" and Kill with nil, without
\* a call of the operating system.
AfterReleaseNothingIsDone ==
    \A t \in WaitCallers \cup {"kill"} :
        (uPc[t] = "idle" /\ uPc'[t] # "idle" /\ ReleaseReturned)
        => /\ uPc'[t] = "done"
           /\ uRet'[t] = IF t = "kill" THEN "nil"
                         ELSE "process handle is closed"
           /\ uStale' = uStale

\* C39: under every interleaving of Wait, Kill, release and the finalizer
\* the handle is closed at most once, no call of the operating system is
\* given the handle after it was closed, and after a release Wait returns
\* the error "process handle is closed" and Kill returns nil and does
\* nothing.
C39_HandleNeverUsedAfterClose ==
    /\ [](ClosedAtMostOnce /\ NoUseAfterClose)
    /\ [][AfterReleaseNothingIsDone]_vars

\* The parts of C39 that are about the number of closes and about the
\* calls that begin after a release.
ClosedOnceAndDeadAfterRelease ==
    /\ []ClosedAtMostOnce
    /\ [][AfterReleaseNothingIsDone]_vars

(***************************************************************************)
(*                The tunnels of the tray menu (ui/tray.go)                *)
(***************************************************************************)

\* The tunnel names are 1..MaxTunnels, and conf.TunnelNameIsLess is their
\* order as numbers.
MaxTunnels == 12
TunnelNames == 1..MaxTunnels
\* const trayTunnelActionsOffset = 3
TrayTunnelActionsOffset == 3
\* The number of tunnels up to which they are shown in the top-level menu.
BreakoutLimit == 10

\* A *walk.Action: the action of a tunnel, made by addTunnelAction, or
\* another action of the menu.
TunnelAction(name) == [kind |-> "tunnel", name |-> name]
MenuAction(kind) == [kind |-> kind, name |-> 0]
\* The actions that setup adds to the context menu.
StaticActions ==
    [i \in 1..9 |->
        MenuAction(<< "Status", "Addresses", "Separator1", "Separator2",
                      "Manage", "Import", "Separator3", "About", "Exit" >>[i])]
\* The action of the submenu.
TunnelsMenu == MenuAction("Tunnels")

\* ActionList.Insert(index, action), ActionList.Remove(action) and
\* ActionList.Index, with indices from 0 as in the program.
InsertAt(s, index, a) ==
    SubSeq(s, 1, index) \o << a >> \o SubSeq(s, index + 1, Len(s))
RemoveAction(s, a) == SelectSeq(s, LAMBDA x : x # a)

\* sortedTunnels: the names of tray.tunnels in the order of
\* conf.TunnelNameIsLess.
RECURSIVE SortedTunnels(_)
SortedTunnels(names) ==
    IF names = {} THEN << >>
    ELSE LET least == CHOOSE n \in names : \A m \in names : n <= m
         IN  << TunnelAction(least) >> \o SortedTunnels(names \ {least})

\* Mutant: the new action is always put first.
SortedIndexFirst(names, name) == 0

\* The index of name in sortedTunnels(), found by the loop of
\* addTunnelAction.
SortedIndex(names, name) == Cardinality({n \in names : n < name})

\* The first loop of rebalanceTunnelsMenu: the actions of the sorted
\* tunnels are inserted behind the action of the submenu.
RECURSIVE InsertSorted(_, _, _)
InsertSorted(actions, sorted, idx) ==
    IF sorted = << >> THEN actions
    ELSE InsertSorted(InsertAt(actions, TrayTunnelActionsOffset + idx, Head(sorted)),
                      Tail(sorted), idx + 1)

\* The second loop of rebalanceTunnelsMenu: every action is removed from
\* the top-level menu.
RECURSIVE RemoveAll(_, _)
RemoveAll(actions, sorted) ==
    IF sorted = << >> THEN actions
    ELSE RemoveAll(RemoveAction(actions, Head(sorted)), Tail(sorted))

\* rebalanceTunnelsMenu on the menu m = (top, sub, breakout) with the
\* tunnels names; fail is the call that fails, if any.
RebalanceTunnelsMenu(m, names, fail) ==
    IF m.breakout /\ Cardinality(names) <= BreakoutLimit
    THEN IF Len(m.top) > TrayTunnelActionsOffset
         THEN [top |-> RemoveAction(InsertSorted(m.top, SortedTunnels(names), 1),
                                    m.top[TrayTunnelActionsOffset + 1]),
               sub |-> << >>, breakout |-> FALSE, failed |-> FALSE]
         ELSE [m EXCEPT !.failed = FALSE]
    ELSE IF ~m.breakout /\ Cardinality(names) > BreakoutLimit
    THEN IF fail = "NewMenu"
         THEN [m EXCEPT !.failed = TRUE]
         ELSE IF fail = "InsertMenu"
         THEN [top |-> RemoveAll(m.top, SortedTunnels(names)),
               sub |-> << >>, breakout |-> FALSE, failed |-> TRUE]
         ELSE [top |-> InsertAt(RemoveAll(m.top, SortedTunnels(names)),
                                TrayTunnelActionsOffset, TunnelsMenu),
               sub |-> SortedTunnels(names), breakout |-> TRUE,
               failed |-> FALSE]
    ELSE [m EXCEPT !.failed = FALSE]

\* The menu as the variables hold it.
TrayMenu ==
    [top |-> tTop, sub |-> tSub, breakout |-> tBreakout, failed |-> FALSE]

InitTray ==
    /\ tOn = TRUE
    /\ tTunnels = {}
    /\ tTop = StaticActions
    /\ tSub = << >>
    /\ tBreakout = FALSE
    /\ tFailed = FALSE

\* No tray exists (the state of the other specifications).
TrayOff ==
    /\ tOn = FALSE
    /\ tTunnels = {}
    /\ tTop = << >>
    /\ tSub = << >>
    /\ tBreakout = FALSE
    /\ tFailed = FALSE

\* The menu becomes m.
SetTrayMenu(m) ==
    /\ tTop' = m.top
    /\ tSub' = m.sub
    /\ tBreakout' = m.breakout
    /\ tFailed' = (tFailed \/ m.failed)

\* addTunnelAction(tunnel), called by onTunnelsChange for a tunnel that has
\* no action. The menu is followed up to the first failure of walk.NewMenu
\* or InsertMenu.
AddTunnelAction ==
    /\ tOn /\ ~tFailed
    /\ \E name \in TunnelNames \ tTunnels,
          fail \in {"none", "NewMenu", "InsertMenu"} :
         LET names == tTunnels \cup {name}
             idx == SortedIndex(names, name)
             placed ==
               IF tBreakout
               THEN IF Len(tTop) > TrayTunnelActionsOffset
                    THEN [TrayMenu EXCEPT !.sub = InsertAt(tSub, idx, TunnelAction(name))]
                    ELSE TrayMenu
               ELSE [TrayMenu EXCEPT
                       !.top = InsertAt(tTop, TrayTunnelActionsOffset + idx,
                                        TunnelAction(name))]
         IN  /\ tTunnels' = names
             /\ SetTrayMenu(RebalanceTunnelsMenu(placed, names, fail))
    /\ UNCHANGED tOn
    /\ UNCHANGED nonTrayVars

\* removeTunnelAction(tunnelName), called by onTunnelsChange for a tunnel
\* that has an action and is gone.
RemoveTunnelAction ==
    /\ tOn /\ ~tFailed
    /\ \E name \in tTunnels, fail \in {"none", "NewMenu", "InsertMenu"} :
         LET names == tTunnels \ {name}
             taken ==
               IF tBreakout
               THEN IF Len(tTop) > TrayTunnelActionsOffset
                    THEN [TrayMenu EXCEPT !.sub = RemoveAction(tSub, TunnelAction(name))]
                    ELSE TrayMenu
               ELSE [TrayMenu EXCEPT !.top = RemoveAction(tTop, TunnelAction(name))]
         IN  /\ tTunnels' = names
             /\ SetTrayMenu(RebalanceTunnelsMenu(taken, names, fail))
    /\ UNCHANGED tOn
    /\ UNCHANGED nonTrayVars

NextTray == AddTunnelAction \/ RemoveTunnelAction

(***************************************************************************)
(*                        Properties of the tray menu                      *)
(***************************************************************************)

\* The actions of tunnels in the top-level menu, in their order.
TunnelActionsOf(actions) == SelectSeq(actions, LAMBDA x : x.kind = "tunnel")

\* C40: as long as no menu creation has failed, the tunnels are in the
\* submenu exactly when more than 10 are known, and every known tunnel has
\* one action, in the order of the names, in the top-level menu from the
\* offset on or in the submenu, and not in both.
C40_MenuBalanced ==
    (tOn /\ ~tFailed) =>
      /\ tBreakout = (Cardinality(tTunnels) > BreakoutLimit)
      /\ TunnelActionsOf(tTop) \o tSub = SortedTunnels(tTunnels)
      /\ IF tBreakout
         THEN /\ TunnelActionsOf(tTop) = << >>
              /\ tTop[TrayTunnelActionsOffset + 1] = TunnelsMenu
         ELSE /\ tSub = << >>
              /\ \A i \in 1..Cardinality(tTunnels) :
                    tTop[TrayTunnelActionsOffset + i].kind = "tunnel"
      /\ RemoveAction(RemoveAll(tTop, SortedTunnels(tTunnels)), TunnelsMenu)
           = StaticActions

\* C40 witness: eleven tunnels are known, all in the submenu, and the
\* eleventh to be added was not the last in the order of the names.
C40_Witness ==
    /\ tOn /\ ~tFailed
    /\ tTunnels = TunnelNames \ {MaxTunnels}
    /\ tBreakout
    /\ tSub = SortedTunnels(tTunnels)
    /\ Len(tTop) = Len(StaticActions) + 1

(***************************************************************************)
(*                            Specifications                               *)
(***************************************************************************)

\* One run of tunnelService.Execute.
InitSpecExec ==
    /\ InitExec
    /\ ScriptOff /\ DnsOff /\ MtuOff /\ ParseOff /\ EndpointOff /\ ListOff
    /\ ResolveOff /\ PitfallOff /\ WeakOff /\ UiOff /\ TrayOff
SpecExec == InitSpecExec /\ [][NextExec]_vars

\* Execute under fair scheduling of its own goroutine between the return
\* from the body and the head of the deferred function. Nothing obliges
\* the startup steps, the service manager or the cleanup tasks to proceed.
FairSpecExec ==
    /\ InitSpecExec
    /\ [][NextExec]_vars
    /\ WF_vars(DeferBegin)

\* One call of runScriptCommand.
InitSpecScript ==
    /\ InitScript
    /\ ExecOff /\ DnsOff /\ MtuOff /\ ParseOff /\ EndpointOff /\ ListOff
    /\ ResolveOff /\ PitfallOff /\ WeakOff /\ UiOff /\ TrayOff
SpecScript == InitSpecScript /\ [][NextScript]_vars

\* runScriptCommand under fair scheduling: the goroutine of the call takes
\* its next step when it can and the timer of the context fires 30 s after
\* the context was made. Nothing obliges the subprocess to exit.
FairSpecScript ==
    /\ InitSpecScript
    /\ [][NextScript]_vars
    /\ WF_vars(ScriptCheckEmpty)
    /\ WF_vars(ScriptCheckGate)
    /\ WF_vars(ScriptSetup)
    /\ WF_vars(ScriptStart)
    /\ WF_vars(ScriptDeadline)
    /\ WF_vars(ScriptSelectDone)
    /\ WF_vars(ScriptSelectTimeout)

\* A sequence of calls of resolveHostname sharing the DNS cache.
InitSpecDns ==
    /\ InitDns
    /\ ExecOff /\ ScriptOff /\ MtuOff /\ ParseOff /\ EndpointOff /\ ListOff
    /\ ResolveOff /\ PitfallOff /\ WeakOff /\ UiOff /\ TrayOff
SpecDns == InitSpecDns /\ [][NextDns]_vars

\* One MTU monitor: the initial updateMTU call and the callbacks.
InitSpecMtu ==
    /\ InitMtu
    /\ ExecOff /\ ScriptOff /\ DnsOff /\ ParseOff /\ EndpointOff /\ ListOff
    /\ ResolveOff /\ PitfallOff /\ WeakOff /\ UiOff /\ TrayOff
SpecMtu == InitSpecMtu /\ [][NextMtu]_vars

\* The MTU monitor under fair scheduling: a started updateMTU call gets the
\* lock when it is free and runs to its end, and time passes. Nothing
\* obliges the host to send further notifications.
FairSpecMtu ==
    /\ InitSpecMtu
    /\ [][NextMtu]_vars
    /\ WF_vars(MtuStartupCall)
    /\ WF_vars(MtuEnter)
    /\ WF_vars(MtuBody)
    /\ WF_vars(MtuTick)

\* One call of FromWgQuick on a text of up to MaxTextLines lines.
InitSpecParse ==
    /\ InitParse
    /\ ExecOff /\ ScriptOff /\ DnsOff /\ MtuOff /\ EndpointOff /\ ListOff
    /\ ResolveOff /\ PitfallOff /\ WeakOff /\ UiOff /\ TrayOff
SpecParse == InitSpecParse /\ [][NextParse]_vars

\* One call of parseEndpoint.
InitSpecEndpoint ==
    /\ InitEndpoint
    /\ ExecOff /\ ScriptOff /\ DnsOff /\ MtuOff /\ ParseOff /\ ListOff
    /\ ResolveOff /\ PitfallOff /\ WeakOff /\ UiOff /\ TrayOff
SpecEndpoint == InitSpecEndpoint /\ [][NextEndpoint]_vars

\* One list-valued line of FromWgQuick.
InitSpecList ==
    /\ InitList
    /\ ExecOff /\ ScriptOff /\ DnsOff /\ MtuOff /\ ParseOff /\ EndpointOff
    /\ ResolveOff /\ PitfallOff /\ WeakOff /\ UiOff /\ TrayOff
SpecList == InitSpecList /\ [][NextList]_vars

\* One call of ResolveEndpoints.
InitSpecResolve ==
    /\ InitResolve
    /\ ExecOff /\ ScriptOff /\ DnsOff /\ MtuOff /\ ParseOff /\ EndpointOff
    /\ ListOff /\ PitfallOff /\ WeakOff /\ UiOff /\ TrayOff
SpecResolve == InitSpecResolve /\ [][NextResolve]_vars

\* The goroutine of evaluateStaticPitfalls in pitfallDnsCacheDisabled.
InitSpecPitfall ==
    /\ InitPitfall
    /\ ExecOff /\ ScriptOff /\ DnsOff /\ MtuOff /\ ParseOff /\ EndpointOff
    /\ ListOff /\ ResolveOff /\ WeakOff /\ UiOff /\ TrayOff
SpecPitfall == InitSpecPitfall /\ [][NextPitfall]_vars

\* The diagnostics under fair scheduling: the goroutine takes its next
\* step whenever it can. Nothing obliges a failing system call to succeed
\* later.
FairSpecPitfall ==
    /\ InitSpecPitfall
    /\ [][NextPitfall]_vars
    /\ WF_vars(PitfallEnter)
    /\ WF_vars(PitfallConnect)
    /\ WF_vars(PitfallOpenService)
    /\ WF_vars(PitfallConfig)
    /\ WF_vars(PitfallCheck)
    /\ WF_vars(PitfallUnwind)

\* One scan of pitfallWeakHostSend.
InitSpecWeak ==
    /\ InitWeak
    /\ ExecOff /\ ScriptOff /\ DnsOff /\ MtuOff /\ ParseOff /\ EndpointOff
    /\ ListOff /\ ResolveOff /\ PitfallOff /\ UiOff /\ TrayOff
SpecWeak == InitSpecWeak /\ [][NextWeak]_vars

\* One uiProcess and the goroutines that call its methods.
InitSpecUi ==
    /\ InitUi
    /\ ExecOff /\ ScriptOff /\ DnsOff /\ MtuOff /\ ParseOff /\ EndpointOff
    /\ ListOff /\ ResolveOff /\ PitfallOff /\ WeakOff /\ TrayOff
SpecUi == InitSpecUi /\ [][NextUi]_vars

\* The tray menu under the calls that onTunnelsChange makes.
InitSpecTray ==
    /\ InitTray
    /\ ExecOff /\ ScriptOff /\ DnsOff /\ MtuOff /\ ParseOff /\ EndpointOff
    /\ ListOff /\ ResolveOff /\ PitfallOff /\ WeakOff /\ UiOff
SpecTray == InitSpecTray /\ [][NextTray]_vars

=============================================================================
